---------------------------- MODULE Spec2Model ----------------------------
(***************************************************************************)
(* Connector routing engine of blocksuite: the change-batching middleware, *)
(* the connector path generator (straight, curve, orthogonal) and the      *)
(* connector handle's drag protocol.                                       *)
(*                                                                         *)
(* Every coordinate is an integer number of hundredths of a canvas unit    *)
(* (the router itself rounds to two decimals, downscalePrecision), so the  *)
(* tolerances 0.02 and 0.05 are 2 and 5 and the snap distance 10 is 1000.  *)
(***************************************************************************)
EXTENDS Integers, Sequences, FiniteSets, TLC

VARIABLES
    shapes,       \* surface elements other than connectors: id -> [exists, xywh]
    conns,        \* surface connectors: id -> connector record
    pendingList,  \* the middleware's pending Set, in insertion order
    pendingFlag,  \* the middleware's pendingFlag
    microtasks,   \* number of flush callbacks queued with queueMicrotask
    named,        \* history: connector -> number of addToUpdateList calls since the last flush
    lastFlush,    \* history: what the flush that led to this state did
    dc,           \* the connector the handle is attached to
    hs,           \* the handle: listeners, drag closure, _isMoving
    lastOp        \* history: the last path operation of the handle's connector

varsM == <<shapes, conns, pendingList, pendingFlag, microtasks, named, lastFlush>>
varsD == <<dc, hs, lastOp>>
vars == <<shapes, conns, pendingList, pendingFlag, microtasks, named, lastFlush, dc, hs, lastOp>>

---------------------------------------------------------------------------
(* Vectors                                                                 *)

Abs(a) == IF a < 0 THEN -a ELSE a
Min(a, b) == IF a <= b THEN a ELSE b
Max(a, b) == IF a >= b THEN a ELSE b
Sign(a) == IF a > 0 THEN 1 ELSE IF a < 0 THEN -1 ELSE 0

VecAdd(a, b) == <<a[1] + b[1], a[2] + b[2]>>
VecSub(a, b) == <<a[1] - b[1], a[2] - b[2]>>
\* Vec.mul(v, 0.5); the inputs of the model keep it exact
VecHalf(a) == <<a[1] \div 2, a[2] \div 2>>
\* Vec.mul(v, 2 / 3); the inputs of the model keep it exact
VecTwoThirds(a) == <<(2 * a[1]) \div 3, (2 * a[2]) \div 3>>
\* the square of Vec.dist
Dist2(a, b) == (a[1] - b[1]) * (a[1] - b[1]) + (a[2] - b[2]) * (a[2] - b[2])

\* almostEqual(a, b, epsilon): Math.abs(a - b) < epsilon
AlmostEqual(a, b, eps) == Abs(a - b) < eps

Zero2 == <<0, 0>>

SeqMin(f, n) == CHOOSE m \in {f[i] : i \in 1..n} : \A i \in 1..n : m <= f[i]
SeqMax(f, n) == CHOOSE m \in {f[i] : i \in 1..n} : \A i \in 1..n : m >= f[i]

---------------------------------------------------------------------------
(* PointLocation and its serialized form XYTangentInOut                    *)

Num(b) == IF b THEN 1 ELSE 0

\* new PointLocation(point, tangent, in, out, freezedX, freezedY)
PointLocation(point, tangent, inVec, outVec, freezedX, freezedY) ==
    [x |-> point[1], y |-> point[2], tangent |-> tangent, in |-> inVec,
     out |-> outVec, fx |-> freezedX # 0, fy |-> freezedY # 0]

\* new PointLocation(vec): every other argument takes its default
PointOf(v) == PointLocation(v, Zero2, Zero2, Zero2, 0, 0)

FromVec(v) == PointOf(v)

Vec(p) == <<p.x, p.y>>

SetVec(p, v) == [p EXCEPT !.x = v[1], !.y = v[2]]

\* setFreezedAxis(x, y) with both arguments booleans
SetFreezedAxis(p, fx, fy) == [p EXCEPT !.fx = fx, !.fy = fy]

\* the coordinate of index dir (0: x, 1: y)
Coord(p, dir) == IF dir = 0 THEN p.x ELSE p.y
SetCoord(p, dir, v) == IF dir = 0 THEN [p EXCEPT !.x = v] ELSE [p EXCEPT !.y = v]

AbsIn(p) == VecAdd(Vec(p), p.in)
AbsOut(p) == VecAdd(Vec(p), p.out)

ToXYTangentInOut(p) == <<Vec(p), p.tangent, p.in, p.out, Num(p.fx), Num(p.fy)>>

\* a constructor call that drops the two pin flags of the serialized form
FromSerializedUnpinned(s) == PointLocation(s[1], s[2], s[3], s[4], 0, 0)

\* new PointLocation(...serialized)
FromSerialized(s) == PointLocation(s[1], s[2], s[3], s[4], s[5], s[6])

Deserialize(points) == [i \in 1..Len(points) |-> FromSerialized(points[i])]

\* clone(): a new PointLocation of the point's six components
Clone(p) == PointLocation(Vec(p), p.tangent, p.in, p.out, Num(p.fx), Num(p.fy))

---------------------------------------------------------------------------
(* Bounds                                                                  *)

\* getBoundFromPoints: the tight box [x, y, w, h] of a non-empty point list
GetBoundFromPoints(pts) ==
    LET n == Len(pts)
        minX == SeqMin([i \in 1..n |-> pts[i].x], n)
        minY == SeqMin([i \in 1..n |-> pts[i].y], n)
        maxX == SeqMax([i \in 1..n |-> pts[i].x], n)
        maxY == SeqMax([i \in 1..n |-> pts[i].y], n)
    IN  IF n = 0 THEN <<0, 0, 0, 0>> ELSE <<minX, minY, maxX - minX, maxY - minY>>

\* getEntireBezierCurveBoundingBox. The curve connectors of this model have
\* their control points inside the box of their end points, where the box of
\* the curve is the box of the end points.
GetEntireBezierCurveBoundingBox(pts) == GetBoundFromPoints(pts)

BoundCenter(b) == <<b[1] + b[3] \div 2, b[2] + b[4] \div 2>>

---------------------------------------------------------------------------
(* Connections, shapes and the connector entity                            *)

NoId == "none"
NoPos == <<>>

Modes == {"Straight", "Orthogonal", "Curve"}

HasId(connection) == connection.id # NoId
HasPosition(connection) == connection.position # NoPos

\* surface.hasElementById(id) || surface.doc.hasBlockById(id)
hasElementById(sh, id) == id \in DOMAIN sh /\ sh[id].exists

\* the state of a connector model after construction (class field initialisers)
NewConnector(mode, source, target) ==
    [mode |-> mode, source |-> source, target |-> target,
     xywh |-> <<0, 0, 0, 0>>, points |-> <<>>, path |-> <<>>,
     absolutePath |-> <<>>, localUpdating |-> FALSE, modeUpdating |-> FALSE,
     moving |-> FALSE]

\* set path(value): stores the path and derives absolutePath from it
SetPath(c, value) ==
    [c EXCEPT !.path = value,
              !.absolutePath = [i \in 1..Len(value) |->
                  SetVec(Clone(value[i]), <<value[i].x + c.xywh[1], value[i].y + c.xywh[2]>>)]]

\* get path(): an empty stored path is first loaded from the serialized points
LoadPath(c) == IF Len(c.path) = 0 THEN SetPath(c, Deserialize(c.points)) ELSE c

\* connector.points = value on a surface connector: the elementUpdated
\* notification of the field hands the new points to updatePath
updatePath(c, points) == SetPath(c, Deserialize(points))

SetPoints(c, points) == updatePath([c EXCEPT !.points = points], points)

SetXYWH(c, bound) == [c EXCEPT !.xywh = bound]

---------------------------------------------------------------------------
(* Anchor resolver                                                         *)

\* getAnchors for an unrotated rectangle: the outline points hit from the
\* centre towards top, bottom, left and right, in this order
getAnchors(xywh) ==
    LET x == xywh[1]
        y == xywh[2]
        w == xywh[3]
        h == xywh[4]
        c == BoundCenter(xywh)
    IN  << PointLocation(<<c[1], y>>, <<100, 0>>, Zero2, Zero2, 0, 0),
           PointLocation(<<c[1], y + h>>, <<-100, 0>>, Zero2, Zero2, 0, 0),
           PointLocation(<<x, c[2]>>, <<0, -100>>, Zero2, Zero2, 0, 0),
           PointLocation(<<x + w, c[2]>>, <<0, 100>>, Zero2, Zero2, 0, 0) >>

\* closestPoint: the first point of least distance (stable sort by distance)
closestPoint(points, point) ==
    LET n == Len(points)
        best == CHOOSE i \in 1..n :
                  /\ \A j \in 1..n : Dist2(Vec(points[i]), point) <= Dist2(Vec(points[j]), point)
                  /\ \A j \in 1..(i - 1) : Dist2(Vec(points[j]), point) > Dist2(Vec(points[i]), point)
    IN  points[best]

getNearestConnectableAnchor(xywh, point) == closestPoint(getAnchors(xywh), point)

\* getConnectableRelativePosition: position is relative, in halves of the
\* shape's width and height (0, 1, 2 for 0, 0.5, 1)
getConnectableRelativePosition(xywh, position) ==
    LET at == <<xywh[1] + (position[1] * xywh[3]) \div 2,
                xywh[2] + (position[2] * xywh[4]) \div 2>>
        tangent == IF position = <<0, 1>> THEN <<0, -100>>
                   ELSE IF position = <<2, 1>> THEN <<0, 100>>
                   ELSE IF position = <<1, 0>> THEN <<100, 0>>
                   ELSE IF position = <<1, 2>> THEN <<-100, 0>>
                   ELSE Zero2
    IN  PointLocation(at, tangent, Zero2, Zero2, 0, 0)

Raise == [err |-> TRUE, v |-> <<>>]
Return(v) == [err |-> FALSE, v |-> v]

Other(type) == IF type = "source" THEN "target" ELSE "source"

\* _getConnectionPoint for a connection that is not auto
GetFixedConnectionPoint(c, type, sh) ==
    LET connection == c[type]
    IN  IF HasId(connection)
        THEN IF ~hasElementById(sh, connection.id) THEN Raise
             ELSE Return(getConnectableRelativePosition(sh[connection.id].xywh, connection.position))
        ELSE IF ~HasPosition(connection) THEN Raise
             ELSE Return(FromVec(connection.position))

\* the anchor of a shape nearest to the point found for the other end
NearestAnchorTo(xywh, otherPoint) ==
    IF otherPoint.err THEN Raise
    ELSE Return(getNearestConnectableAnchor(xywh, Vec(otherPoint.v)))

\* _getConnectionPoint: an auto connection takes the anchor nearest to the
\* other end's point; two auto connections would recurse without end
GetConnectionPoint(c, type, sh) ==
    IF HasId(c[type]) /\ ~HasPosition(c[type])
    THEN IF ~hasElementById(sh, c[type].id) THEN Raise
         ELSE IF HasId(c[Other(type)]) /\ ~HasPosition(c[Other(type)]) THEN Raise
         ELSE NearestAnchorTo(sh[c[type].id].xywh,
                              GetFixedConnectionPoint(c, Other(type), sh))
    ELSE GetFixedConnectionPoint(c, type, sh)

BothAuto(c) ==
    /\ HasId(c.source) /\ ~HasPosition(c.source)
    /\ HasId(c.target) /\ ~HasPosition(c.target)

\* dist(a) + 0.1 < dist(b) for the squared distances da, db. In hundredths
\* this is sqrt(da) + 10 < sqrt(db), that is 20 * sqrt(da) < db - da - 100,
\* compared here without leaving the 32-bit integers: with
\* db - da - 100 = 20 * q + r it is 400 * (da - q * q) < 40 * q * r + r * r
CloserByTenth(da, db) ==
    LET D == db - da - 100
        q == D \div 20
        r == D % 20
    IN  /\ D > 0
        /\ \/ q > 46000
           \/ /\ da - q * q <= 100000
              /\ \/ da - q * q < 0
                 \/ 400 * (da - q * q) < 40 * q * r + r * r

\* the pairs of anchors in enumeration order, start anchors outermost
AnchorPairs == [k \in 1..16 |-> <<((k - 1) \div 4) + 1, ((k - 1) % 4) + 1>>]

PairDist2(sa, ea, k) == Dist2(Vec(sa[AnchorPairs[k][1]]), Vec(ea[AnchorPairs[k][2]]))

\* one round of the loop of _computeStartEndPoint: prev is the pair held as
\* minimum (0: none yet, minDist is Infinity)
MinPairStep(sa, ea, k, prev) ==
    IF prev = 0 THEN k
    ELSE IF CloserByTenth(PairDist2(sa, ea, k), PairDist2(sa, ea, prev)) THEN k
    ELSE prev

\* the loop of _computeStartEndPoint over the first k pairs
RECURSIVE MinPairUpTo(_, _, _)
MinPairUpTo(sa, ea, k) ==
    IF k = 0 THEN 0 ELSE MinPairStep(sa, ea, k, MinPairUpTo(sa, ea, k - 1))

AnchorPairAt(sa, ea, m) == <<sa[AnchorPairs[m][1]], ea[AnchorPairs[m][2]]>>

MinAnchorPair(sa, ea) == AnchorPairAt(sa, ea, MinPairUpTo(sa, ea, 16))

\* [startPoint, endPoint] of two resolved ends
BothEnds(s, e) == IF s.err \/ e.err THEN Raise ELSE Return(<<s.v, e.v>>)

\* _computeStartEndPoint
ComputeStartEndPoint(c, sh) ==
    IF BothAuto(c)
    THEN IF ~hasElementById(sh, c.source.id) \/ ~hasElementById(sh, c.target.id) THEN Raise
         ELSE Return(MinAnchorPair(getAnchors(sh[c.source.id].xywh),
                                   getAnchors(sh[c.target.id].xywh)))
    ELSE BothEnds(GetConnectionPoint(c, "source", sh), GetConnectionPoint(c, "target", sh))

---------------------------------------------------------------------------
(* Straight and curve generators                                           *)

\* absolutePoints[0] = startPoint; absolutePoints[absolutePoints.length - 1 || 1] = endPoint
PutEnds(points, startPoint, endPoint) ==
    LET a == IF Len(points) = 0 THEN <<startPoint>> ELSE [points EXCEPT ![1] = startPoint]
        k == IF Len(a) - 1 # 0 THEN Len(a) - 1 ELSE 1
    IN  IF k + 1 <= Len(a) THEN [a EXCEPT ![k + 1] = endPoint] ELSE Append(a, endPoint)

PutEndsOf(points, se) ==
    IF se.err THEN Raise ELSE Return(PutEnds(points, se.v[1], se.v[2]))

\* path.map(point => point.clone().setVec(Vec.add(point, [x, y])))
ToAbsolute(path, xywh) ==
    [i \in 1..Len(path) |-> SetVec(path[i], <<path[i].x + xywh[1], path[i].y + xywh[2]>>)]

\* _generateStraightConnectorPath
GenerateStraightConnectorPath(c, sh) ==
    IF BothAuto(c)
    THEN IF ~hasElementById(sh, c.source.id) \/ ~hasElementById(sh, c.target.id) THEN Raise
         ELSE Return(PutEnds(ToAbsolute(c.path, c.xywh),
                             getNearestConnectableAnchor(sh[c.source.id].xywh,
                                                         BoundCenter(sh[c.target.id].xywh)),
                             getNearestConnectableAnchor(sh[c.target.id].xywh,
                                                         BoundCenter(sh[c.source.id].xywh))))
    ELSE PutEndsOf(ToAbsolute(c.path, c.xywh),
                   BothEnds(GetConnectionPoint(c, "source", sh),
                            GetConnectionPoint(c, "target", sh)))

\* the control vector of a free end of a curve: two thirds of the way to the
\* other end, along the axis of this end's out vector
FreeEndControl(from, to, alongX) ==
    IF alongX THEN <<VecTwoThirds(VecSub(to, from))[1], 0>>
    ELSE <<0, VecTwoThirds(VecSub(to, from))[2]>>

AlongX(s, e) == Abs(e[1] - s[1]) > Abs(e[2] - s[2])

CurveFreeEnds(points, se) ==
    IF se.err THEN Raise
    ELSE Return(PutEnds(points,
             [se.v[1] EXCEPT !.out = FreeEndControl(Vec(se.v[1]), Vec(se.v[2]),
                                                    AlongX(Vec(se.v[1]), Vec(se.v[2])))],
             [se.v[2] EXCEPT !.in = FreeEndControl(Vec(se.v[2]), Vec(se.v[1]),
                                                   AlongX(Vec(se.v[1]), Vec(se.v[2])))]))

\* _generateCurveConnectorPath, for a connector with two free ends; a curve
\* connector of this model is never attached to a shape
GenerateCurveConnectorPath(c, sh) ==
    CASE ~HasId(c.source) /\ ~HasId(c.target) ->
         CurveFreeEnds(ToAbsolute(c.path, c.xywh),
                       BothEnds(GetConnectionPoint(c, "source", sh),
                                GetConnectionPoint(c, "target", sh)))

\* _autoSetOpenedAnchorControlPoints with isStrictDirection false (the end is
\* not attached to a shape); pointIndex counts from 0
AutoSetOpenedAnchorControlPoints(points, pointIndex) ==
    LET n == Len(points)
    IN  IF pointIndex < 0 \/ pointIndex > n - 1 \/ (pointIndex # 0 /\ pointIndex # n - 1)
        THEN points
        ELSE IF pointIndex = 0
        THEN [points EXCEPT ![1].out =
                 VecHalf(VecSub(AbsIn(points[2]), Vec(points[1])))]
        ELSE [points EXCEPT ![n].in =
                 VecHalf(VecSub(AbsOut(points[n - 1]), Vec(points[n])))]

\* _autoSetAnchorControlPoints(connector, points, pointIndex, false) for a
\* path of two points, whose points are both open ends
AutoSetNoNeighbors(points, pointIndex) ==
    IF pointIndex < 0 \/ pointIndex > Len(points) - 1 THEN points
    ELSE AutoSetOpenedAnchorControlPoints(points, pointIndex)

\* _autoSetAnchorControlPoints(connector, points, pointIndex) for a path of
\* two points: the neighbours pointIndex - 1 and pointIndex + 1 first, then
\* the point itself
AutoSetAnchorControlPoints(points, pointIndex) ==
    LET a == AutoSetNoNeighbors(points, pointIndex - 1)
        b == AutoSetNoNeighbors(a, pointIndex + 1)
    IN  AutoSetOpenedAnchorControlPoints(b, pointIndex)

\* the curve branch of updatePathEnds
SmoothCurveEnds(modeUpdating, absolutePath) ==
    LET n == Len(absolutePath)
    IN  CASE n = 2 ->
             IF modeUpdating
             THEN AutoSetNoNeighbors(AutoSetNoNeighbors(absolutePath, 0), 1)
             ELSE AutoSetAnchorControlPoints(AutoSetAnchorControlPoints(absolutePath, 0), n - 1)

---------------------------------------------------------------------------
(* Orthogonal router                                                       *)

Reverse(s) == [i \in 1..Len(s) |-> s[Len(s) + 1 - i]]

\* the direction of a line: 0 when both points have the same x, else 1
LineDir(a, b) == IF a.x = b.x THEN 0 ELSE 1

\* generateSmallestOrthogonalConnectorPath between two free points (no
\* bounds): the direct segment when the points are aligned, else the path
\* through the middle of the longer side of their box
GenerateSmallestOrthogonalConnectorPath(startPoint, endPoint) ==
    LET s == Vec(startPoint)
        e == Vec(endPoint)
        cx == (s[1] + e[1]) \div 2
        cy == (s[2] + e[2]) \div 2
    IN  IF AlmostEqual(s[1], e[1], 2) \/ AlmostEqual(s[2], e[2], 2)
        THEN <<PointOf(s), PointOf(e)>>
        ELSE IF Abs(e[1] - s[1]) > Abs(e[2] - s[2])
        THEN <<PointOf(s), PointOf(<<cx, s[2]>>), PointOf(<<cx, e[2]>>), PointOf(e)>>
        ELSE <<PointOf(s), PointOf(<<s[1], cy>>), PointOf(<<e[1], cy>>), PointOf(e)>>

\* the end of the line of generateOrthogonalConnectorPathToLine: a line of
\* two coincident points pinned on a common axis is given a direction
LineEnd(line) ==
    IF Vec(line[1]) = Vec(line[2]) /\ line[1].fx /\ line[2].fx
    THEN SetVec(line[2], <<line[2].x, line[2].y + 1000>>)
    ELSE IF Vec(line[1]) = Vec(line[2]) /\ line[1].fy /\ line[2].fy
    THEN SetVec(line[2], <<line[2].x + 1000, line[2].y>>)
    ELSE line[2]

\* Vec.nearestPointOnLineSegment(start, end, point, false) for a vertical or
\* a horizontal line
NearestPointOnLine(start, end, point) ==
    CASE start.x = end.x /\ start.y # end.y -> <<start.x, point.y>>
      [] start.y = end.y /\ start.x # end.x -> <<point.x, start.y>>

PointOnLine(start, end, point) ==
    SetFreezedAxis(PointOf(NearestPointOnLine(start, end, point)),
                   LineDir(start, end) = 0, LineDir(start, end) = 1)

\* generateOrthogonalConnectorPathToLine with bound null
GenerateOrthogonalConnectorPathToLine(point, line) ==
    <<point, PointOnLine(line[1], LineEnd(line), point)>>

FreezeAlso(p, dir) == SetFreezedAxis(p, p.fx \/ dir = 0, p.fy \/ dir = 1)

IsFreezed(p) == p.fx \/ p.fy

\* firstFreezedPointIndex and lastFreezedPointIndex, counted from 1 (0: NaN)
FirstFreezed(path) ==
    IF \A i \in 1..Len(path) : ~IsFreezed(path[i]) THEN 0
    ELSE CHOOSE i \in 1..Len(path) :
             IsFreezed(path[i]) /\ \A j \in 1..(i - 1) : ~IsFreezed(path[j])

LastFreezed(path) ==
    IF \A i \in 1..Len(path) : ~IsFreezed(path[i]) THEN 0
    ELSE CHOOSE i \in 1..Len(path) :
             IsFreezed(path[i]) /\ \A j \in (i + 1)..Len(path) : ~IsFreezed(path[j])

\* the partial re-route between the pinned points first and last
RouteAround(path, first, last) ==
    GenerateOrthogonalConnectorPathToLine(path[1], <<path[first], path[first + 1]>>)
        \o SubSeq(path, first + 1, last - 1)
        \o Reverse(GenerateOrthogonalConnectorPathToLine(
                       path[Len(path)], <<path[last], path[last - 1]>>))

RouteAlwaysFull(path, first, last) ==
    GenerateSmallestOrthogonalConnectorPath(path[1], path[Len(path)])

\* generateOrthogonalConnectorPath once the ends are written into the path
RoutePinned(path, first, last) ==
    IF first = 0 \/ last = 0 \/ first = last
    THEN GenerateSmallestOrthogonalConnectorPath(path[1], path[Len(path)])
    ELSE RouteAround(path, first, last)

RouteWithEnds(path) == RoutePinned(path, FirstFreezed(path), LastFreezed(path))

\* the line is vertical or horizontal once its end is given a direction
OnAxis(line) == (line[1].x = LineEnd(line).x) # (line[1].y = LineEnd(line).y)

\* the lines the partial re-route of the path projects the ends on are
\* vertical or horizontal
RoutableBetween(path, first, last) ==
    IF first = 0 \/ last = 0 \/ first = last THEN TRUE
    ELSE OnAxis(<<path[first], path[first + 1]>>) /\ OnAxis(<<path[last], path[last - 1]>>)

Routable(path) == RoutableBetween(path, FirstFreezed(path), LastFreezed(path))

RouteFromEnds(absolutePath, se) ==
    IF se.err THEN Raise
    ELSE Return(RouteWithEnds(PutEnds(absolutePath, se.v[1], se.v[2])))

\* generateOrthogonalConnectorPath for a connector with free ends
GenerateOrthogonalConnectorPath(c, absolutePath, sh) ==
    RouteFromEnds(absolutePath, ComputeStartEndPoint(c, sh))

\* the loop of _removeExtraPointsOnOneLine from index i (counted from 0)
RECURSIVE RemoveLoop(_, _, _, _, _)
RemoveLoop(path, i, newPath, lastIndexOnLine, lineDir) ==
    IF i > Len(path) - 1 THEN Append(newPath, path[lastIndexOnLine + 1])
    ELSE IF AlmostEqual(Coord(path[i + 1], lineDir), Coord(path[i], lineDir), 5)
    THEN RemoveLoop(path, i + 1, newPath, i, lineDir)
    ELSE RemoveLoop(path, i + 1, Append(newPath, path[lastIndexOnLine + 1]), i,
                    LineDir(path[i + 1], path[i]))

\* _removeExtraPointsOnOneLine
RemoveExtraPointsOnOneLine(path) ==
    IF Len(path) < 3 THEN path
    ELSE RemoveLoop(path, 2, <<path[1]>>, 1, LineDir(path[1], path[2]))

---------------------------------------------------------------------------
(* updatePathEnds                                                          *)

\* _getNewBound: the box of the absolute path and the path and serialized
\* points relative to the box's origin
GetNewBound(mode, absolutePath) ==
    LET bound == IF mode = "Curve" THEN GetEntireBezierCurveBoundingBox(absolutePath)
                 ELSE GetBoundFromPoints(absolutePath)
        path == [i \in 1..Len(absolutePath) |->
                    SetVec(Clone(absolutePath[i]), <<absolutePath[i].x - bound[1],
                                              absolutePath[i].y - bound[2]>>)]
    IN  [bound |-> bound, path |-> path,
         points |-> [i \in 1..Len(path) |-> ToXYTangentInOut(path[i])]]

\* _resetPathIfNotOrthogonal
ResetPathIfNotOrthogonal(c) ==
    LET path == c.path
        n == Len(path)
    IN  IF c.mode = "Orthogonal" /\
           \E i \in 1..(n - 2) : /\ ~AlmostEqual(path[i + 1].x, path[i].x, 2)
                                 /\ ~AlmostEqual(path[i + 1].y, path[i].y, 2)
        THEN SetPath(c, <<path[1], path[n]>>)
        ELSE c

CollapseRoute(route) ==
    IF route.err THEN Raise ELSE Return(RemoveExtraPointsOnOneLine(route.v))

\* _generateConnectorPath
GenerateConnectorPath(c, sh) ==
    IF c.mode = "Straight" THEN GenerateStraightConnectorPath(c, sh)
    ELSE IF c.mode = "Orthogonal"
    THEN CollapseRoute(GenerateOrthogonalConnectorPath(c, ToAbsolute(c.path, c.xywh), sh))
    ELSE IF c.mode = "Curve" THEN GenerateCurveConnectorPath(c, sh)
    ELSE Raise

\* the two assignments in the other order
WriteBoundPointsFirst(c, nb) == SetXYWH(SetPoints(c, nb.points), nb.bound)

WriteBound(c, nb) == SetPoints(SetXYWH(c, nb.bound), nb.points)

\* the write-back of movePoint, removeExtraPoints and updatePoints: xywh
\* first, then the points (the assignment order matters)
WriteBoundAndPoints(c, absolutePath) == WriteBound(c, GetNewBound(c.mode, absolutePath))

\* !isEqual(newPoints[0], connector.points[0]) ||
\* !isEqual(newPoints[newPath.length - 1], connector.points[connector.points.length - 1])
EndsChanged(newPoints, points) ==
    \/ Len(points) = 0
    \/ newPoints[1] # points[1]
    \/ newPoints[Len(newPoints)] # points[Len(points)]

\* the write-back of updatePathEnds
WriteEnds(c, nb) ==
    IF EndsChanged(nb.points, c.points)
    THEN [SetPoints(SetXYWH(c, nb.bound), nb.points) EXCEPT !.modeUpdating = FALSE]
    ELSE [SetPath(SetXYWH(c, nb.bound), nb.path) EXCEPT !.modeUpdating = FALSE]

SmoothAndWrite(c, absolutePath) ==
    WriteEnds(c, GetNewBound(c.mode, IF c.mode = "Curve"
                                     THEN SmoothCurveEnds(c.modeUpdating, absolutePath)
                                     ELSE absolutePath))

WriteGenerated(c, generated) ==
    IF generated.err THEN [err |-> TRUE, v |-> c]
    ELSE Return(SmoothAndWrite(c, generated.v))

GenerateAndWrite(c, sh) == WriteGenerated(c, GenerateConnectorPath(c, sh))

ResetOnModeSwitch(c) ==
    IF c.modeUpdating /\ c.mode = "Orthogonal" THEN ResetPathIfNotOrthogonal(c) ELSE c

\* updatePathEnds: the connector it leaves, or the error it raises
UpdatePathEnds(c, sh) == GenerateAndWrite(ResetOnModeSwitch(LoadPath(c)), sh)

\* hasRelatedElement
hasRelatedElement(c, sh) ==
    ~ \/ (HasId(c.source) /\ ~hasElementById(sh, c.source.id))
      \/ (HasId(c.target) /\ ~hasElementById(sh, c.target.id))

---------------------------------------------------------------------------
(* The middleware                                                          *)

\* shouldUpdateConnectorPath looking at the source only
ShouldUpdateSourceOnly(c, sh) ==
    \/ (HasId(c.source) /\ hasElementById(sh, c.source.id))
    \/ (~HasId(c.source) /\ HasPosition(c.source))

shouldUpdateConnectorPath(c, sh) ==
    /\ \/ (HasId(c.source) /\ hasElementById(sh, c.source.id))
       \/ (~HasId(c.source) /\ HasPosition(c.source))
    /\ \/ (HasId(c.target) /\ hasElementById(sh, c.target.id))
       \/ (~HasId(c.target) /\ HasPosition(c.target))

\* updateConnectorPathEnds
updateConnectorPathEnds(c, sh) ==
    IF shouldUpdateConnectorPath(c, sh) THEN UpdatePathEnds(c, sh) ELSE Return(c)

\* the connectors of the surface, in the order surface.getConnectors and
\* getElementsByType list them
ConnIds == <<"c1", "c2">>
ConnSet == {ConnIds[i] : i \in 1..Len(ConnIds)}
ShapeIds == {"s1", "s2"}

\* surface.getConnectors(id): the connectors with source or target id
RECURSIVE FilterConnectors(_, _, _)
FilterConnectors(cs, id, k) ==
    IF k > Len(ConnIds) THEN <<>>
    ELSE (IF cs[ConnIds[k]].source.id = id \/ cs[ConnIds[k]].target.id = id
          THEN <<ConnIds[k]>> ELSE <<>>) \o FilterConnectors(cs, id, k + 1)

getConnectors(cs, id) == FilterConnectors(cs, id, 1)

InSeq(x, q) == \E i \in 1..Len(q) : q[i] = x

\* the middleware's closure state
Middleware(list, flag, tasks, count) ==
    [pendingList |-> list, pendingFlag |-> flag, microtasks |-> tasks, named |-> count]

\* addToUpdateList without the pendingFlag test: one microtask per call
AddToUpdateListUnguarded(m, c) ==
    Middleware(IF InSeq(c, m.pendingList) THEN m.pendingList ELSE Append(m.pendingList, c),
               TRUE, m.microtasks + 1, [m.named EXCEPT ![c] = @ + 1])

\* addToUpdateList
addToUpdateList(m, c) ==
    Middleware(IF InSeq(c, m.pendingList) THEN m.pendingList ELSE Append(m.pendingList, c),
               TRUE,
               IF ~m.pendingFlag THEN m.microtasks + 1 ELSE m.microtasks,
               [m.named EXCEPT ![c] = @ + 1])

\* list.forEach(addToUpdateList)
RECURSIVE AddAll(_, _, _)
AddAll(m, list, k) ==
    IF k > Len(list) THEN m ELSE AddAll(addToUpdateList(m, list[k]), list, k + 1)

Current == Middleware(pendingList, pendingFlag, microtasks, named)

SetMiddleware(m) ==
    /\ pendingList' = m.pendingList
    /\ pendingFlag' = m.pendingFlag
    /\ microtasks' = m.microtasks
    /\ named' = m.named

\* one call of updateConnectorPathEnds by the forEach of the flush; r is what
\* the call returns
Visit(run, id, recomputes, r) ==
    [conns |-> [run.conns EXCEPT ![id] = r.v],
     visits |-> [run.visits EXCEPT ![id] = @ + 1],
     recomputed |-> IF recomputes THEN run.recomputed \cup {id} ELSE run.recomputed,
     error |-> r.err]

\* a forEach that ends after its first entry
ForEachFirstOnly(run, list, sh, k) ==
    IF k # 1 \/ Len(list) = 0 THEN run
    ELSE Visit(run, list[1], shouldUpdateConnectorPath(run.conns[list[1]], sh),
               updateConnectorPathEnds(run.conns[list[1]], sh))

\* pendingList.forEach(updateConnectorPathEnds) from entry k on: the
\* connectors it leaves, how often it visited each, which it recomputed, and
\* whether a recompute raised (which ends the forEach)
RECURSIVE ForEachPending(_, _, _, _)
ForEachPending(run, list, sh, k) ==
    IF k > Len(list) \/ run.error THEN run
    ELSE ForEachPending(Visit(run, list[k], shouldUpdateConnectorPath(run.conns[list[k]], sh),
                              updateConnectorPathEnds(run.conns[list[k]], sh)),
                        list, sh, k + 1)

NoVisits == [c \in ConnSet |-> 0]

---------------------------------------------------------------------------
(* The surface of the middleware specification                             *)

\* at most this many notifications name one connector between two flushes
MaxNamed == 2

Auto(id) == [id |-> id, position |-> NoPos]
At(id, position) == [id |-> id, position |-> position]
Free(position) == [id |-> NoId, position |-> position]

\* the boxes a shape is moved between
ShapeBoxes(id) ==
    IF id = "s1" THEN {<<0, 0, 10000, 1000>>}
    ELSE {<<9000, 3000, 1000, 1000>>, <<12000, 0, 2000, 1000>>}

\* the connections an end of a connector is switched between
Connections(c, type) ==
    IF c = "c1" THEN (IF type = "source" THEN {Auto("s1")}
                      ELSE {Auto("s2"), At("s2", <<0, 1>>), Free(<<2400, 6000>>)})
    ELSE (IF type = "source" THEN {Free(<<0, 0>>)}
          ELSE {Free(<<9600, 0>>), Free(<<9600, 4800>>)})

\* the modes a connector is switched between: the connectors attached to a
\* shape stay straight
ModesOf(c) == IF c = "c2" THEN Modes ELSE {"Straight"}

\* stored point lists a connector can be loaded with before its first
\* recompute
StoredPoints == {<<>>, <<ToXYTangentInOut(PointOf(<<0, 0>>))>>}

NoFlush ==
    [done |-> FALSE, shapes |-> <<>>, pre |-> <<>>, post |-> <<>>, list |-> <<>>,
     visits |-> NoVisits,
     recomputed |-> {}, named |-> NoVisits, error |-> FALSE,
     pendingAfter |-> <<>>, flagAfter |-> FALSE]

InitShapes ==
    [id \in ShapeIds |-> [exists |-> TRUE,
                          xywh |-> IF id = "s1" THEN <<0, 0, 10000, 1000>>
                                   ELSE <<9000, 3000, 1000, 1000>>]]

\* the connectors of the document when the middleware is installed
LoadedConnectors(mode2, stored2) ==
    [c \in ConnSet |->
        IF c = "c1" THEN NewConnector("Straight", Auto("s1"), Auto("s2"))
        ELSE [NewConnector(mode2, Free(<<0, 0>>), Free(<<9600, 0>>)) EXCEPT !.points = stored2]]

\* surface.getElementsByType('connector').forEach(updateConnectorPathEnds)
StartupRecompute(cs, sh) ==
    ForEachPending([conns |-> cs, visits |-> NoVisits, recomputed |-> {}, error |-> FALSE],
                   ConnIds, sh, 1).conns

InitDragIdle ==
    /\ dc = <<>>
    /\ hs = <<>>
    /\ lastOp = <<>>

Init ==
    /\ shapes = InitShapes
    /\ \E mode2 \in Modes, stored2 \in StoredPoints :
           conns = StartupRecompute(LoadedConnectors(mode2, stored2), InitShapes)
    /\ pendingList = <<>>
    /\ pendingFlag = FALSE
    /\ microtasks = 0
    /\ named = NoVisits
    /\ lastFlush = NoFlush
    /\ InitDragIdle

\* every connector of the list can still be named
CanName(list) == \A i \in 1..Len(list) : named[list[i]] < MaxNamed

\* elementUpdated of a shape with props.xywh
ShapeUpdated(id, xywh) ==
    /\ shapes[id].exists
    /\ xywh # shapes[id].xywh
    /\ LET list == SelectSeq(getConnectors(conns, id), LAMBDA c : ~conns[c].moving)
       IN  /\ CanName(list)
           /\ SetMiddleware(AddAll(Current, list, 1))
    /\ shapes' = [shapes EXCEPT ![id].xywh = xywh]
    /\ lastFlush' = NoFlush
    /\ UNCHANGED conns

\* a shape is deleted: the middleware listens to no removal
ShapeRemoved(id) ==
    /\ shapes[id].exists
    /\ shapes' = [shapes EXCEPT ![id].exists = FALSE]
    /\ lastFlush' = NoFlush
    /\ UNCHANGED <<conns, pendingList, pendingFlag, microtasks, named>>

\* elementAdded of a shape (the deleted shape comes back)
ShapeAdded(id) ==
    /\ ~shapes[id].exists
    /\ CanName(getConnectors(conns, id))
    /\ shapes' = [shapes EXCEPT ![id].exists = TRUE]
    /\ SetMiddleware(AddAll(Current, getConnectors(conns, id), 1))
    /\ lastFlush' = NoFlush
    /\ UNCHANGED conns

\* elementUpdated of a connector with props.source or props.target; local
\* tells whether the writer had set localUpdating
ConnectorUpdated(c, type, connection, local) ==
    /\ connection # conns[c][type]
    /\ conns' = [conns EXCEPT ![c][type] = connection, ![c].localUpdating = FALSE]
    /\ IF local
       THEN CanName(<<c>>) /\ SetMiddleware(addToUpdateList(Current, c))
       ELSE UNCHANGED <<pendingList, pendingFlag, microtasks, named>>
    /\ lastFlush' = NoFlush
    /\ UNCHANGED shapes

\* elementUpdated of a connector with props.mode
ChangeMode(c, mode) ==
    /\ mode # conns[c].mode
    /\ mode = "Curve" => Len(LoadPath(conns[c]).path) <= 2
    /\ CanName(<<c>>)
    /\ conns' = [conns EXCEPT ![c].mode = mode, ![c].modeUpdating = TRUE]
    /\ SetMiddleware(addToUpdateList(Current, c))
    /\ lastFlush' = NoFlush
    /\ UNCHANGED shapes

\* a flush that ends before pendingList.clear()
AfterFlushUncleared(run) == Middleware(pendingList, pendingFlag, microtasks - 1, named)

\* what the flush leaves of the middleware's state: a raising recompute ends
\* the callback before pendingList.clear()
AfterFlush(run) ==
    IF run.error THEN Middleware(pendingList, pendingFlag, microtasks - 1, named)
    ELSE Middleware(<<>>, FALSE, microtasks - 1, NoVisits)

FlushWith(run) ==
    /\ conns' = run.conns
    /\ SetMiddleware(AfterFlush(run))
    /\ lastFlush' = [done |-> TRUE, shapes |-> shapes, pre |-> conns,
                     post |-> run.conns, list |-> pendingList, visits |-> run.visits,
                     recomputed |-> run.recomputed, named |-> named,
                     error |-> run.error,
                     pendingAfter |-> IF run.error THEN pendingList ELSE <<>>,
                     flagAfter |-> IF run.error THEN pendingFlag ELSE FALSE]

\* the queued microtask runs
Flush ==
    /\ microtasks > 0
    /\ FlushWith(ForEachPending([conns |-> conns, visits |-> NoVisits,
                                 recomputed |-> {}, error |-> FALSE],
                                pendingList, shapes, 1))
    /\ UNCHANGED shapes

Next ==
    \/ \E id \in ShapeIds : \E xywh \in ShapeBoxes(id) : ShapeUpdated(id, xywh) /\ UNCHANGED varsD
    \/ \E id \in ShapeIds : ShapeRemoved(id) /\ UNCHANGED varsD
    \/ \E id \in ShapeIds : ShapeAdded(id) /\ UNCHANGED varsD
    \/ \E c \in ConnSet, type \in {"source", "target"}, local \in BOOLEAN :
           \E connection \in Connections(c, type) :
               ConnectorUpdated(c, type, connection, local) /\ UNCHANGED varsD
    \/ \E c \in ConnSet : \E mode \in ModesOf(c) : ChangeMode(c, mode) /\ UNCHANGED varsD
    \/ Flush /\ UNCHANGED varsD

Spec == Init /\ [][Next]_vars

---------------------------------------------------------------------------
(* Properties of the middleware and of updatePathEnds                      *)

\* C1: change batching. However many notifications arrive before the queued
\* flush runs, exactly one flush is queued (one microtask while the pending
\* flag is set, none otherwise, and the flag is set exactly while connectors
\* are pending); the flush calls the recompute once for each connector that
\* was named, however often it was named, and no other; after the flush the
\* pending set is empty and the pending flag is false.
C1_ChangeBatching ==
    /\ microtasks = (IF pendingFlag THEN 1 ELSE 0)
    /\ pendingFlag <=> (pendingList # <<>>)
    /\ \A c \in ConnSet : named[c] > 0 <=> InSeq(c, pendingList)
    /\ lastFlush.done =>
           /\ \A c \in ConnSet :
                  lastFlush.visits[c] = (IF lastFlush.named[c] > 0 THEN 1 ELSE 0)
           /\ lastFlush.pendingAfter = <<>> /\ ~lastFlush.flagAfter
           /\ pendingList = <<>> /\ ~pendingFlag /\ microtasks = 0

\* a flush has just served two connectors, one of them named twice
C1_Witness ==
    /\ lastFlush.done
    /\ \E c \in ConnSet : lastFlush.named[c] >= 2 /\ lastFlush.visits[c] = 1
    /\ \A c \in ConnSet : lastFlush.visits[c] = 1

\* a connector as the document stores it before its first recompute
AsStored(c, stored) ==
    [c EXCEPT !.points = stored, !.path = <<>>, !.absolutePath = <<>>,
              !.xywh = <<0, 0, 0, 0>>]

SecondRunSame(once, sh) == ~once.err => UpdatePathEnds(once.v, sh) = once

\* C2: recompute is idempotent. For every connector of a reachable state
\* whose ends are resolvable, with the path it has or with an empty or a
\* single-point stored path, in every mode, a second updatePathEnds leaves
\* the connector (path, points, bounding box) as the first one left it.
C2_RecomputeIdempotent ==
    \A c \in ConnSet :
        /\ shouldUpdateConnectorPath(conns[c], shapes) =>
               SecondRunSame(UpdatePathEnds(conns[c], shapes), shapes)
        /\ \A stored \in StoredPoints :
               shouldUpdateConnectorPath(conns[c], shapes) =>
                   SecondRunSame(UpdatePathEnds(AsStored(conns[c], stored), shapes), shapes)

\* an end that carries the id of an element that does not exist
DanglingEnd(connection, sh) ==
    connection.id # NoId /\ ~(connection.id \in DOMAIN sh /\ sh[connection.id].exists)

Dangling(c, sh) == DanglingEnd(c.source, sh) \/ DanglingEnd(c.target, sh)

\* an end that is an existing element or a free position
ResolvableEnd(connection, sh) ==
    \/ connection.id # NoId /\ ~DanglingEnd(connection, sh)
    \/ connection.id = NoId /\ connection.position # NoPos

\* C3: unresolvable endpoint. A flush raises no error; a connector it visits
\* whose source or target id resolves to no element is left exactly as it
\* was; the connectors it recomputes are exactly the visited ones with both
\* ends resolvable; hasRelatedElement is false for a connector with a
\* dangling id.
C3_UnresolvableEndpoint ==
    /\ \A c \in ConnSet : Dangling(conns[c], shapes) => ~hasRelatedElement(conns[c], shapes)
    /\ lastFlush.done =>
           /\ ~lastFlush.error
           /\ \A c \in ConnSet :
                  lastFlush.visits[c] > 0 /\ Dangling(lastFlush.pre[c], lastFlush.shapes)
                      => lastFlush.post[c] = lastFlush.pre[c]
           /\ lastFlush.recomputed =
                  {c \in ConnSet : /\ lastFlush.visits[c] > 0
                                   /\ ResolvableEnd(lastFlush.pre[c].source, lastFlush.shapes)
                                   /\ ResolvableEnd(lastFlush.pre[c].target, lastFlush.shapes)}

\* a flush has just visited a connector with a dangling end and recomputed
\* another connector
C3_Witness ==
    /\ lastFlush.done
    /\ \E c \in ConnSet : /\ lastFlush.visits[c] > 0
                          /\ Dangling(lastFlush.pre[c], lastFlush.shapes)
                          /\ lastFlush.post[c] = lastFlush.pre[c]
                          /\ ~hasRelatedElement(conns[c], shapes)
    /\ lastFlush.recomputed # {}

EndsAtResolved(c, se) ==
    /\ ~se.err
    /\ Len(c.absolutePath) >= 2
    /\ Vec(c.absolutePath[1]) = Vec(se.v[1])
    /\ Vec(c.absolutePath[Len(c.absolutePath)]) = Vec(se.v[2])

\* C4: anchor containment. After a recompute in straight or curve mode the
\* first and the last point of absolutePath are at the points the resolver
\* (_computeStartEndPoint) gives for source and target with the shapes as
\* they are.
C4_AnchorContainment ==
    lastFlush.done =>
        \A c \in lastFlush.recomputed :
            lastFlush.post[c].mode \in {"Straight", "Curve"} =>
                EndsAtResolved(lastFlush.post[c],
                               ComputeStartEndPoint(lastFlush.post[c], lastFlush.shapes))

---------------------------------------------------------------------------
(* Moving, inserting and collapsing path points                            *)

NoShapes == [id \in {} |-> [exists |-> FALSE, xywh |-> <<0, 0, 0, 0>>]]

\* absolutePath[a]?.[0] === absolutePath[b]?.[0] ? 0 : 1, a and b from 0
DirOfLine(path, a, b) ==
    LET n == Len(path)
        hasA == a >= 0 /\ a <= n - 1
        hasB == b >= 0 /\ b <= n - 1
    IN  IF (hasA /\ hasB /\ path[a + 1].x = path[b + 1].x) \/ (~hasA /\ ~hasB)
        THEN 0 ELSE 1

\* movingDir === lineDir && Math.abs(absolutePoint[movingDir] - lineDirValue) < 10
\* for the line that starts at index a (from 0)
SnapsTo(path, a, lineDir, movingDir, v) ==
    /\ a >= 0
    /\ a <= Len(path) - 1
    /\ movingDir = lineDir
    /\ Abs(v - Coord(path[a + 1], lineDir)) < 1000

\* the snap of _moveOrthogonalPoint: the value the moved coordinate takes.
\* path is the path after the move, r the new moving index (from 0), v the
\* pointer's coordinate on movingDir
SnapValue(path, r, movingDir, v) ==
    IF SnapsTo(path, r + 2, DirOfLine(path, r + 2, r + 3), movingDir, v)
    THEN Coord(path[r + 3], DirOfLine(path, r + 2, r + 3))
    ELSE IF SnapsTo(path, r - 2, DirOfLine(path, r - 2, r - 1), movingDir, v)
    THEN Coord(path[r - 1], DirOfLine(path, r - 2, r - 1))
    ELSE v

\* p[movingDir] = absolutePoint[movingDir]; p.setFreezedAxis(p.freezedAxis.x ||
\* movingDir === 0, p.freezedAxis.y || movingDir === 1)
Moved(p, movingDir, v) == FreezeAlso(SetCoord(p, movingDir, v), movingDir)

\* endLinePoint and startLinePoint: a new point at the resolved end, put on
\* the pointer's line and pinned on movingDir only
LinePoint(p, movingDir, v) ==
    SetFreezedAxis(SetCoord(PointOf(Vec(p)), movingDir, v), movingDir = 0, movingDir = 1)

\* the new path of the block movingIndex === absolutePath.length - 2; i is
\* the place of before, counted from 1
EndBlock(p0, i, before, endLinePoint, endPoint) ==
    SubSeq(p0, 1, i - 1) \o <<before>>
        \o Reverse(GenerateOrthogonalConnectorPathToLine(endPoint, <<before, endLinePoint>>))

MoveLastSegment(p0, movingIndex, movingDir, v, endPoint) ==
    IF movingIndex # Len(p0) - 2 THEN p0
    ELSE EndBlock(p0, movingIndex + 1, Moved(p0[movingIndex + 1], movingDir, v),
                  LinePoint(endPoint, movingDir, v), endPoint)

\* the new path of the block movingIndex === 0
StartBlock(p1, after, startLinePoint, startPoint) ==
    GenerateOrthogonalConnectorPathToLine(startPoint, <<startLinePoint, after>>)
        \o <<after>> \o SubSeq(p1, 3, Len(p1))

MoveFirstSegment(p1, movingIndex, movingDir, v, startPoint) ==
    IF movingIndex # 0 THEN p1
    ELSE StartBlock(p1, Moved(p1[2], movingDir, v), LinePoint(startPoint, movingDir, v),
                    startPoint)

PinnedAnew(p, movingDir, v) ==
    SetFreezedAxis(SetCoord(p, movingDir, v), movingDir = 0, movingDir = 1)

MoveInteriorPinnedAnew(p2, movingIndex, movingDir, v) ==
    IF movingIndex > 0 /\ movingIndex < Len(p2) - 2
    THEN [p2 EXCEPT ![movingIndex + 1] = PinnedAnew(p2[movingIndex + 1], movingDir, v),
                    ![movingIndex + 2] = PinnedAnew(p2[movingIndex + 2], movingDir, v)]
    ELSE p2

\* the block movingIndex > 0 && movingIndex < absolutePath.length - 2
MoveInterior(p2, movingIndex, movingDir, v) ==
    IF movingIndex > 0 /\ movingIndex < Len(p2) - 2
    THEN [p2 EXCEPT ![movingIndex + 1] = Moved(p2[movingIndex + 1], movingDir, v),
                    ![movingIndex + 2] = Moved(p2[movingIndex + 2], movingDir, v)]
    ELSE p2

\* before[movingDir] = after[movingDir] = the line's value
Snapped(p3, r, movingDir, v, snapped) ==
    [err |-> FALSE,
     path |-> IF snapped = v THEN p3
              ELSE [p3 EXCEPT ![r + 1] = SetCoord(p3[r + 1], movingDir, snapped),
                              ![r + 2] = SetCoord(p3[r + 2], movingDir, snapped)],
     index |-> r]

SnapMoved(p3, r, movingDir, v) == Snapped(p3, r, movingDir, v, SnapValue(p3, r, movingDir, v))

AfterFirstSegmentSameIndex(p1, p2, movingIndex, movingDir, v) ==
    SnapMoved(MoveInterior(p2, movingIndex, movingDir, v), movingIndex, movingDir, v)

\* newMovingIndex = addedPointsCount when movingIndex === 0
AfterFirstSegment(p1, p2, movingIndex, movingDir, v) ==
    SnapMoved(MoveInterior(p2, movingIndex, movingDir, v),
              IF movingIndex = 0 THEN Len(p2) - Len(p1) ELSE movingIndex, movingDir, v)

AfterLastSegment(p1, movingIndex, movingDir, v, startPoint) ==
    AfterFirstSegment(p1, MoveFirstSegment(p1, movingIndex, movingDir, v, startPoint),
                      movingIndex, movingDir, v)

MoveOrthogonalAlong(p0, movingIndex, movingDir, v, se) ==
    IF (movingIndex = Len(p0) - 2 \/ movingIndex = 0) /\ se.err
    THEN [err |-> TRUE, path |-> p0, index |-> movingIndex]
    ELSE AfterLastSegment(MoveLastSegment(p0, movingIndex, movingDir, v, se.v[2]),
                          movingIndex, movingDir, v, se.v[1])

\* _moveOrthogonalPoint: the new absolute path and the new moving index;
\* movingIndex counts from 0
MoveOrthogonalPoint(c, movingIndex, absolutePoint, sh) ==
    MoveOrthogonalAlong(c.absolutePath, movingIndex,
                        LineDir(c.absolutePath[movingIndex + 1], c.absolutePath[movingIndex + 2]),
                        absolutePoint[LineDir(c.absolutePath[movingIndex + 1],
                                              c.absolutePath[movingIndex + 2]) + 1],
                        ComputeStartEndPoint(c, sh))

---------------------------------------------------------------------------
(* Smoothing of the anchors of a curve                                     *)

\* the integer square root of n, by bisection between lo and hi
RECURSIVE SqrtBetween(_, _, _)
SqrtBetween(n, lo, hi) ==
    IF lo >= hi THEN lo
    ELSE IF ((lo + hi + 1) \div 2) * ((lo + hi + 1) \div 2) <= n
    THEN SqrtBetween(n, (lo + hi + 1) \div 2, hi)
    ELSE SqrtBetween(n, lo, ((lo + hi + 1) \div 2) - 1)

\* Vec.len, in hundredths
VecLen(v) == SqrtBetween(v[1] * v[1] + v[2] * v[2], 0, 46340)

\* Vec.normalize of a vector of length len # 0: a vector of length 1.00
ScaledTo(v, len) == <<(100 * v[1]) \div len, (100 * v[2]) \div len>>
Normalize(v) == ScaledTo(v, VecLen(v))

\* Vec.mul(unit, third * len) for a unit vector in hundredths
ThirdOf(unit, len) == <<(unit[1] * len) \div 300, (unit[2] * len) \div 300>>

VecNeg(v) == <<-v[1], -v[2]>>

\* Vec.lrpCubic(p0, p1, p2, p3, 0.5): the point of the cubic Bezier curve
\* at t = 0.5
LrpCubicHalf(p0, p1, p2, p3) ==
    <<(p0[1] + 3 * p1[1] + 3 * p2[1] + p3[1]) \div 8,
      (p0[2] + 3 * p1[2] + 3 * p2[2] + p3[2]) \div 8>>

\* the control vector of a closed anchor: the unit vector of the difference
\* of the unit vectors towards the point before and the point after
ControlVector(toBefore, toAfter) ==
    Normalize(VecSub(Normalize(toBefore), Normalize(toAfter)))

\* the vectors of _autoSetClosedAnchorControlPoints are numbers only if the
\* point differs from both neighbours and does not lie on a turn-back
HasControlVector(points, pointIndex) ==
    /\ Vec(points[pointIndex]) # Vec(points[pointIndex + 1])
    /\ Vec(points[pointIndex + 2]) # Vec(points[pointIndex + 1])
    /\ Normalize(VecSub(Vec(points[pointIndex]), Vec(points[pointIndex + 1])))
           # Normalize(VecSub(Vec(points[pointIndex + 2]), Vec(points[pointIndex + 1])))

WithControl(point, controlVector, lenBefore, lenAfter) ==
    [point EXCEPT !.in = ThirdOf(controlVector, lenBefore),
                  !.out = ThirdOf(VecNeg(controlVector), lenAfter),
                  !.tangent = VecNeg(controlVector)]

\* _autoSetClosedAnchorControlPoints; pointIndex counts from 0
AutoSetClosedAnchorControlPoints(points, pointIndex) ==
    IF pointIndex < 1 \/ pointIndex > Len(points) - 2 THEN points
    ELSE [points EXCEPT ![pointIndex + 1] =
             WithControl(points[pointIndex + 1],
                 ControlVector(VecSub(Vec(points[pointIndex]), Vec(points[pointIndex + 1])),
                               VecSub(Vec(points[pointIndex + 2]), Vec(points[pointIndex + 1]))),
                 VecLen(VecSub(Vec(points[pointIndex]), Vec(points[pointIndex + 1]))),
                 VecLen(VecSub(Vec(points[pointIndex + 2]), Vec(points[pointIndex + 1]))))]

\* the deepest cascade of smoothing calls the model follows
MaxCascade == 3

\* neighborIndexes of updateNeighbors
NeighborIndexes(n, pointIndex) ==
    <<pointIndex - 1, pointIndex + 1>>
        \o (IF pointIndex = 2 THEN <<0>> ELSE <<>>)
        \o (IF pointIndex = n - 3 THEN <<n - 1>> ELSE <<>>)

\* a run of _autoSetAnchorControlPoints: the points and the calls made on
\* an existing point, each with its index and its depth in the cascade
SmoothRun(points, calls) == [points |-> points, calls |-> calls]

Called(run, pointIndex, depth) ==
    SmoothRun(run.points, Append(run.calls, <<pointIndex, depth>>))

RECURSIVE AutoSetAnchor(_, _, _, _)
RECURSIVE UpdateNeighbors(_, _, _, _)

\* a cascaded call that lets its own neighbours cascade again
NeighborCascading(run, index, depth) == AutoSetAnchor(run, index, TRUE, depth)

\* this._autoSetAnchorControlPoints(connector, points, index, false)
NeighborSmoothed(run, index, depth) == AutoSetAnchor(run, index, FALSE, depth)

\* neighborIndexes.forEach from entry k on
UpdateNeighbors(run, indexes, k, depth) ==
    IF k > Len(indexes) THEN run
    ELSE UpdateNeighbors(NeighborSmoothed(run, indexes[k], depth), indexes, k + 1, depth)

\* updateNeighbors()
NeighborsUpdated(run, pointIndex, shouldChangeNeighbors, depth) ==
    IF shouldChangeNeighbors
    THEN UpdateNeighbors(run, NeighborIndexes(Len(run.points), pointIndex), 1, depth + 1)
    ELSE run

ClosedSmoothed(run, pointIndex) ==
    SmoothRun(AutoSetClosedAnchorControlPoints(run.points, pointIndex), run.calls)

OpenedSmoothed(run, pointIndex) ==
    SmoothRun(AutoSetOpenedAnchorControlPoints(run.points, pointIndex), run.calls)

\* _autoSetAnchorControlPoints for a connector with two free ends: a
\* closed point is smoothed before its neighbours, an open end after them.
\* Calls deeper than MaxCascade are recorded and not followed.
AutoSetAnchor(run, pointIndex, shouldChangeNeighbors, depth) ==
    IF pointIndex < 0 \/ pointIndex > Len(run.points) - 1 THEN run
    ELSE IF depth > MaxCascade THEN Called(run, pointIndex, depth)
    ELSE IF pointIndex > 0 /\ pointIndex < Len(run.points) - 1
    THEN NeighborsUpdated(ClosedSmoothed(Called(run, pointIndex, depth), pointIndex),
                          pointIndex, shouldChangeNeighbors, depth)
    ELSE OpenedSmoothed(NeighborsUpdated(Called(run, pointIndex, depth), pointIndex,
                                         shouldChangeNeighbors, depth),
                        pointIndex)

\* instance._autoSetAnchorControlPoints(connector, points, pointIndex)
AutoSetAnchorRun(points, pointIndex) ==
    AutoSetAnchor(SmoothRun(points, <<>>), pointIndex, TRUE, 0)

\* the indexes of the points a run smooths
SmoothedBy(n, pointIndex) ==
    {i \in ({pointIndex} \cup {NeighborIndexes(n, pointIndex)[k] :
                k \in 1..Len(NeighborIndexes(n, pointIndex))}) : i >= 0 /\ i <= n - 1}

\* every closed point the run smooths has a control vector
CanSmooth(points, pointIndex) ==
    \A i \in SmoothedBy(Len(points), pointIndex) :
        (i > 0 /\ i < Len(points) - 1) => HasControlVector(points, i)

\* the curve branch of movePoint: the point is set and unpinned, then the
\* anchors around it are smoothed
MoveCurvePoint(c, movingIndex, absolutePoint) ==
    [err |-> FALSE, index |-> movingIndex,
     path |-> AutoSetAnchorRun(
                  [c.absolutePath EXCEPT
                      ![movingIndex + 1] = SetFreezedAxis(
                          SetVec(c.absolutePath[movingIndex + 1], absolutePoint), FALSE, FALSE)],
                  movingIndex).points]

WriteMoved(c, movingIndex, r) ==
    IF r.err THEN [err |-> TRUE, v |-> c, index |-> movingIndex]
    ELSE [err |-> FALSE, v |-> WriteBoundAndPoints(c, r.path), index |-> r.index]

\* absolutePath[movingIndex].setVec(absolutePoint);
\* absolutePath[movingIndex].setFreezedAxis(false, false)
MoveStraightPoint(c, movingIndex, absolutePoint) ==
    [err |-> FALSE, index |-> movingIndex,
     path |-> [c.absolutePath EXCEPT
                  ![movingIndex + 1] = SetFreezedAxis(
                      SetVec(c.absolutePath[movingIndex + 1], absolutePoint), FALSE, FALSE)]]

\* movePoint, movingIndex inside the path: the connector it leaves and the
\* index it returns
movePoint(c, sh, movingIndex, absolutePoint) ==
    WriteMoved(c, movingIndex,
               IF c.mode = "Orthogonal"
               THEN MoveOrthogonalPoint(c, movingIndex, absolutePoint, sh)
               ELSE IF c.mode = "Curve"
               THEN MoveCurvePoint(c, movingIndex, absolutePoint)
               ELSE MoveStraightPoint(c, movingIndex, absolutePoint))

\* removeExtraPoints
removeExtraPoints(c) ==
    IF c.mode # "Orthogonal" THEN c
    ELSE WriteBoundAndPoints(c, RemoveExtraPointsOnOneLine(c.absolutePath))

\* _addPointIntoStraightPath: Vec.lrp(before, after, 0.5); insertIndex
\* counts from 0
AddPointIntoStraightPath(c, insertIndex) ==
    IF insertIndex < 1 \/ insertIndex > Len(c.absolutePath) - 1 THEN c.absolutePath
    ELSE SubSeq(c.absolutePath, 1, insertIndex)
             \o <<PointOf(VecAdd(Vec(c.absolutePath[insertIndex]),
                                 VecHalf(VecSub(Vec(c.absolutePath[insertIndex + 1]),
                                                Vec(c.absolutePath[insertIndex])))))>>
             \o SubSeq(c.absolutePath, insertIndex + 1, Len(c.absolutePath))

\* _addPointIntoCurvePath; insertIndex counts from 0
AddPointIntoCurvePath(c, insertIndex) ==
    IF insertIndex < 1 \/ insertIndex > Len(c.absolutePath) - 1 THEN c.absolutePath
    ELSE SubSeq(c.absolutePath, 1, insertIndex)
             \o <<PointOf(LrpCubicHalf(Vec(c.absolutePath[insertIndex]),
                                       AbsOut(c.absolutePath[insertIndex]),
                                       AbsIn(c.absolutePath[insertIndex + 1]),
                                       Vec(c.absolutePath[insertIndex + 1])))>>
             \o SubSeq(c.absolutePath, insertIndex + 1, Len(c.absolutePath))

\* updatePoints on a straight or an orthogonal connector
updatePoints(c, absolutePath) == WriteBoundAndPoints(c, absolutePath)

\* updatePoints on a curve connector with a number as updatedIndex
UpdateCurvePoints(c, absolutePath, updatedIndex) ==
    WriteBoundAndPoints(c, AutoSetAnchorRun(absolutePath, updatedIndex).points)

\* addPointIntoPath
addPointIntoPath(c, insertIndex) ==
    IF c.mode = "Curve"
    THEN UpdateCurvePoints(c, AddPointIntoCurvePath(c, insertIndex), insertIndex)
    ELSE updatePoints(c, IF c.mode = "Straight" THEN AddPointIntoStraightPath(c, insertIndex)
                         ELSE c.absolutePath)

---------------------------------------------------------------------------
(* The connector handle: one pointer over one selected connector with two  *)
(* free ends that keeps its mode, nothing connectable under the pointer    *)

\* pointer-moves handled in one drag
MaxMoves == 2
\* the longest path a drag may leave
MaxPathLen == 6
\* pointer-downs on the handle
MaxDrags == 3

\* Number.NaN of movingIndex and of a cap's data-point-id
NaN == -1

\* the model positions of the pointer
PointerPositions == {<<2000, 2000>>, <<4004, 4>>, <<8000, 7000>>, <<400, 4500>>}

StartPosition == <<0, 0>>
EndPosition == <<8000, 4000>>

\* fieldsForStash of _closedAnchorPointerDown
FieldsForStash == {"xywh", "labelXYWH", "serializedPath"}
\* the fields stashRapidlyFields stashes
RapidlyFields == {"source", "target"}

\* _isMoving, the pointer, the document listeners a pointer-down added to
\* _disposables (drag), the closure of that pointer-down (connection,
\* pointId, available, movingIndex), the stashed fields and the calls the
\* handlers made since the pointer-down (log)
Handle(isMoving, pointer, drag, connection, pointId, available, movingIndex, stashed, moves, drags, log) ==
    [isMoving |-> isMoving, pointer |-> pointer, drag |-> drag, connection |-> connection,
     pointId |-> pointId, available |-> available, movingIndex |-> movingIndex,
     stashed |-> stashed, moves |-> moves, drags |-> drags, log |-> log]

IdleHandle == Handle(FALSE, "up", "none", "none", NaN, FALSE, NaN, {}, 0, 0, <<>>)

\* the last handled operation on the path: the connector before it, the
\* index and the point it was given and the index it returned
Handled(op, pre, index, point, r) ==
    [op |-> op, pre |-> pre, index |-> index, point |-> point, r |-> r]

NoOp == Handled("none", <<>>, NaN, <<>>, NaN)

\* this._disposables.dispose(); this._disposables = new DisposableGroup();
\* this._bindEvent(): the document listeners of a drag go with the group
Rebind(h) ==
    IF h.drag = "none" THEN h
    ELSE [h EXCEPT !.drag = "none", !.log = h.log \o <<"dispose", "bind">>]

\* the listener without its test of _isMoving
OnElementUpdatedWhileMoving(h) == Rebind(h)

\* the elementUpdated listener of _bindEvent with the rebind it defers to
\* updateComplete, which runs before the next pointer event
OnElementUpdated(h) == IF ~h.isMoving THEN Rebind(h) ELSE h

\* _disposePointerup: the group is disposed, _bindEvent binds the handle's
\* listeners again and elementResizeEnd is emitted
DisposePointerup(h) ==
    [h EXCEPT !.drag = "none", !.movingIndex = NaN,
              !.log = h.log \o <<"dispose", "bind", "resizeEnd">>]

StashOnEveryMove(h, fields) ==
    [h EXCEPT !.isMoving = TRUE, !.stashed = fields, !.log = Append(h.log, "stash")]

\* if (!this._isMoving) { this._isMoving = true; stash the fields }
StashOnFirstMove(h, fields) ==
    IF ~h.isMoving
    THEN [h EXCEPT !.isMoving = TRUE, !.stashed = fields, !.log = Append(h.log, "stash")]
    ELSE h

PopAlways(h, calls) ==
    [h EXCEPT !.isMoving = FALSE, !.stashed = {}, !.log = h.log \o calls]

\* if (this._isMoving) { this._isMoving = false; calls } of a pointer-up
PopIfMoving(h, calls) ==
    IF h.isMoving
    THEN [h EXCEPT !.isMoving = FALSE, !.stashed = {}, !.log = h.log \o calls]
    ELSE h

---------------------------------------------------------------------------
(* The connection overlay: the connection renderConnector finds for a      *)
(* point among the connectable shapes in view. The shapes are unrotated    *)
(* rectangles                                                              *)

\* let result: Connection | null = null
NoConnection == [id |-> NoId, position |-> NoPos]

\* viewport.toViewCoord with the viewport's origin at the origin
ToViewCoord(v, zoom) == <<v[1] * zoom, v[2] * zoom>>

\* bound.expand(margin)
Expand(xywh, margin) ==
    <<xywh[1] - margin, xywh[2] - margin, xywh[3] + 2 * margin, xywh[4] + 2 * margin>>

\* bound.isPointInBound(point, tolerance): strictly inside, by more than the
\* tolerance (0.01 when none is given)
IsPointInBound(xywh, point, tolerance) ==
    /\ point[1] > xywh[1] + tolerance /\ point[1] < xywh[1] + xywh[3] - tolerance
    /\ point[2] > xywh[2] + tolerance /\ point[2] < xywh[2] + xywh[4] - tolerance

Clamp(n, lo, hi) == Max(lo, Min(n, hi))

\* connectable.getNearestPoint(point): the point of the outline nearest to
\* point, the sides taken in the order top, right, bottom, left
SidePoints(xywh, point) ==
    << <<Clamp(point[1], xywh[1], xywh[1] + xywh[3]), xywh[2]>>,
       <<xywh[1] + xywh[3], Clamp(point[2], xywh[2], xywh[2] + xywh[4])>>,
       <<Clamp(point[1], xywh[1], xywh[1] + xywh[3]), xywh[2] + xywh[4]>>,
       <<xywh[1], Clamp(point[2], xywh[2], xywh[2] + xywh[4])>> >>

NearestOf(vs, point) ==
    vs[CHOOSE i \in 1..Len(vs) :
           /\ \A j \in 1..Len(vs) : Dist2(vs[i], point) <= Dist2(vs[j], point)
           /\ \A j \in 1..(i - 1) : Dist2(vs[j], point) > Dist2(vs[i], point)]

GetNearestPoint(xywh, point) == NearestOf(SidePoints(xywh, point), point)

\* connectable.includesPoint(x, y, {ignoreTransparent: false}, host)
IncludesPoint(xywh, point) ==
    /\ point[1] >= xywh[1] /\ point[1] <= xywh[1] + xywh[3]
    /\ point[2] >= xywh[2] /\ point[2] <= xywh[2] + xywh[4]

\* bound.toRelative(point).map(n => clamp(n, 0, 1)), in halves of the width
\* and the height as the positions of a connection are kept, a finer
\* position written in ten-thousandths of a half
ToRelativeClamped(xywh, v) ==
    <<Clamp(((v[1] - xywh[1]) * 20000) \div xywh[3], 0, 20000),
      Clamp(((v[2] - xywh[2]) * 20000) \div xywh[4], 0, 20000)>>

\* anchor.coord of the anchors of getAnchors, in the same unit
AnchorCoords == << <<10000, 0>>, <<10000, 20000>>, <<0, 10000>>, <<20000, 10000>> >>

\* the anchor loop: the index of the first anchor at the least distance in
\* view coordinates (d < shortestDistance with shortestDistance infinite at
\* the start)
ShortestAnchor(xywh, point, zoom) ==
    CHOOSE j \in 1..4 :
        /\ \A i \in 1..4 :
               Dist2(ToViewCoord(Vec(getAnchors(xywh)[j]), zoom), ToViewCoord(point, zoom))
                   <= Dist2(ToViewCoord(Vec(getAnchors(xywh)[i]), zoom), ToViewCoord(point, zoom))
        /\ \A i \in 1..(j - 1) :
               Dist2(ToViewCoord(Vec(getAnchors(xywh)[i]), zoom), ToViewCoord(point, zoom))
                   > Dist2(ToViewCoord(Vec(getAnchors(xywh)[j]), zoom), ToViewCoord(point, zoom))

\* shortestDistance < 8
AnchorIsClose(xywh, point, zoom) ==
    Dist2(ToViewCoord(Vec(getAnchors(xywh)[ShortestAnchor(xywh, point, zoom)]), zoom),
          ToViewCoord(point, zoom)) < 800 * 800

\* result after the anchor loop: every anchor that is nearer than the ones
\* before it is written to result, whatever its distance
AfterAnchors(id, xywh, point, zoom) ==
    At(id, AnchorCoords[ShortestAnchor(xywh, point, zoom)])

\* if (Vec.dist(nearestPoint, point) < 8) result = {id, position}
AfterBoundary(result, id, xywh, point) ==
    IF Dist2(GetNearestPoint(xywh, point), point) < 800 * 800
    THEN At(id, ToRelativeClamped(xywh, GetNearestPoint(xywh, point)))
    ELSE result

\* if (result) continue; if (connectable.includesPoint(...)) result = {id}
AfterBody(result, id, xywh, point) ==
    IF result # NoConnection THEN result
    ELSE IF IncludesPoint(xywh, point) THEN Auto(id)
    ELSE result

\* the body of the loop over the connectables from the anchors on
Examined(id, xywh, point, zoom) ==
    IF AnchorIsClose(xywh, point, zoom) /\ AfterAnchors(id, xywh, point, zoom) # NoConnection
    THEN [result |-> AfterAnchors(id, xywh, point, zoom), break |-> TRUE]
    ELSE [result |-> AfterBody(AfterBoundary(AfterAnchors(id, xywh, point, zoom),
                                             id, xywh, point),
                               id, xywh, point),
          break |-> FALSE]

\* the loop of renderConnector over connectables from the k-th on
RECURSIVE RenderFrom(_, _, _, _, _, _, _)
RenderFrom(result, k, connectables, sh, point, excludedIds, zoom) ==
    IF k > Len(connectables) THEN result
    ELSE IF connectables[k] \in excludedIds
              \/ ~IsPointInBound(Expand(sh[connectables[k]].xywh, 1000), point, 1)
    THEN RenderFrom(result, k + 1, connectables, sh, point, excludedIds, zoom)
    ELSE IF Examined(connectables[k], sh[connectables[k]].xywh, point, zoom).break
    THEN Examined(connectables[k], sh[connectables[k]].xywh, point, zoom).result
    ELSE RenderFrom(Examined(connectables[k], sh[connectables[k]].xywh, point, zoom).result,
                    k + 1, connectables, sh, point, excludedIds, zoom)

\* renderConnector(point, excludedIds) over the connectables in view
renderConnector(point, excludedIds, connectables, sh, zoom) ==
    IF RenderFrom(NoConnection, 1, connectables, sh, point, excludedIds, zoom) = NoConnection
    THEN Free(point)
    ELSE RenderFrom(NoConnection, 1, connectables, sh, point, excludedIds, zoom)

\* the segment handles that are shown: data-point-id is the index of the
\* segment's first point (from 0); an orthogonal segment of length <= 20.02
\* is hidden
SegmentHandles(c) ==
    {k \in 0..(Len(c.absolutePath) - 2) :
        c.mode = "Orthogonal" =>
            Dist2(Vec(c.absolutePath[k + 1]), Vec(c.absolutePath[k + 2])) > 2002 * 2002}

\* the handles of the interior points: none on an orthogonal connector
PointHandles(c) ==
    IF c.mode = "Orthogonal" THEN {} ELSE 1..(Len(c.absolutePath) - 2)

PointerDown(drag, connection, pointId, available) ==
    /\ hs.pointer = "up"
    /\ hs.drags < MaxDrags
    /\ hs' = Handle(hs.isMoving, "down", drag, connection, pointId, available,
                    IF available THEN pointId ELSE NaN, hs.stashed, 0, hs.drags + 1, <<>>)
    /\ lastOp' = NoOp
    /\ UNCHANGED dc

\* _capPointerDown
CapPointerDown(connection) == PointerDown("cap", connection, NaN, FALSE)

\* _closedAnchorPointerDown on the handle of an interior point (available)
\* or of a segment (unavailable or locked)
AnchorPointerDown(pointId, available) ==
    /\ pointId \in (IF available THEN PointHandles(dc) ELSE SegmentHandles(dc))
    /\ PointerDown("anchor", "none", pointId, available)

\* the pointermove listener of _capPointerDown
CapPointerMove(point) ==
    /\ hs.pointer = "down"
    /\ hs.drag = "cap"
    /\ hs.moves < MaxMoves
    /\ point # dc[hs.connection].position
    /\ hs' = [StashOnFirstMove(hs, RapidlyFields) EXCEPT !.moves = hs.moves + 1]
    /\ dc' = [dc EXCEPT ![hs.connection] = renderConnector(point, {}, <<>>, NoShapes, 1)]
    /\ lastOp' = Handled("connect", <<>>, NaN, point, NaN)

\* what the pointermove listener of _closedAnchorPointerDown does to the
\* path
DragStep(c, h, point) ==
    IF h.movingIndex # NaN
    THEN [op |-> "move", from |-> h.movingIndex,
          moved |-> movePoint(c, NoShapes, h.movingIndex, point)]
    ELSE IF c.mode = "Orthogonal"
    THEN [op |-> "move", from |-> h.pointId,
          moved |-> movePoint(c, NoShapes, h.pointId, point)]
    ELSE [op |-> "insert", from |-> h.pointId + 1,
          moved |-> [err |-> FALSE, v |-> addPointIntoPath(c, h.pointId + 1),
                     index |-> h.pointId + 1]]

AnchorMoved(step, point) ==
    /\ ~step.moved.err
    /\ Len(step.moved.v.absolutePath) <= MaxPathLen
    /\ dc' = step.moved.v
    /\ hs' = [StashOnFirstMove(hs, FieldsForStash) EXCEPT !.moves = hs.moves + 1,
                                                          !.movingIndex = step.moved.index]
    /\ lastOp' = Handled(step.op, dc, step.from, point, step.moved.index)

\* the middle of the segment a point is inserted in is a model position
InsertsExactly(c, h) ==
    (h.movingIndex = NaN /\ c.mode # "Orthogonal") =>
        /\ (c.absolutePath[h.pointId + 2].x - c.absolutePath[h.pointId + 1].x) % 2 = 0
        /\ (c.absolutePath[h.pointId + 2].y - c.absolutePath[h.pointId + 1].y) % 2 = 0

\* the pointermove listener of _closedAnchorPointerDown
AnchorPointerMove(point) ==
    /\ hs.pointer = "down"
    /\ hs.drag = "anchor"
    /\ hs.moves < MaxMoves
    /\ InsertsExactly(dc, hs)
    /\ AnchorMoved(DragStep(dc, hs, point), point)

\* the pointerup listener of _capPointerDown
CapPointerUp ==
    /\ hs.pointer = "down"
    /\ hs.drag = "cap"
    /\ hs' = [DisposePointerup(PopIfMoving(hs, <<"pop">>)) EXCEPT !.pointer = "up"]
    /\ lastOp' = NoOp
    /\ UNCHANGED dc

\* the pointerup listener of _closedAnchorPointerDown
AnchorPointerUp ==
    /\ hs.pointer = "down"
    /\ hs.drag = "anchor"
    /\ hs' = [DisposePointerup(PopIfMoving(hs, <<"collapse", "pop">>)) EXCEPT !.pointer = "up"]
    /\ dc' = IF hs.isMoving THEN removeExtraPoints(dc) ELSE dc
    /\ lastOp' = IF hs.isMoving THEN Handled("collapse", dc, NaN, <<>>, NaN) ELSE NoOp

\* the pointer goes up after the drag's listeners were disposed
UnheardPointerUp ==
    /\ hs.pointer = "down"
    /\ hs.drag = "none"
    /\ hs' = [hs EXCEPT !.pointer = "up"]
    /\ lastOp' = NoOp
    /\ UNCHANGED dc

\* elementUpdated of the connector from another writer, before the first
\* move of a drag
ConnectorElementUpdated ==
    /\ hs.drag # "none"
    /\ ~hs.isMoving
    /\ hs' = OnElementUpdated(hs)
    /\ lastOp' = NoOp
    /\ UNCHANGED dc

Recomputed(run) ==
    /\ ~run.err
    /\ run.v # dc
    /\ dc' = run.v
    /\ hs' = OnElementUpdated(hs)
    /\ lastOp' = Handled("recompute", dc, NaN, <<>>, NaN)

\* the recompute of an orthogonal path projects the ends on vertical and
\* horizontal lines only; the foot on another line is no model position
CanRoute(c) ==
    c.mode = "Orthogonal" =>
        Routable(PutEndsOf(ToAbsolute(LoadPath(c).path, c.xywh),
                           ComputeStartEndPoint(c, NoShapes)).v)

\* updatePathEnds of the connector, outside the drag of a point or segment
Recompute ==
    /\ hs.drag # "anchor"
    /\ CanRoute(dc)
    /\ Recomputed(UpdatePathEnds(dc, NoShapes))

InitMiddlewareIdle ==
    /\ shapes = NoShapes
    /\ conns = <<>>
    /\ pendingList = <<>>
    /\ pendingFlag = FALSE
    /\ microtasks = 0
    /\ named = <<>>
    /\ lastFlush = <<>>

InitDrag ==
    /\ InitMiddlewareIdle
    /\ \E mode \in {"Straight", "Orthogonal"} :
           dc = UpdatePathEnds(NewConnector(mode, Free(StartPosition), Free(EndPosition)),
                               NoShapes).v
    /\ hs = IdleHandle
    /\ lastOp = NoOp

NextDrag ==
    \/ \E connection \in {"source", "target"} : CapPointerDown(connection) /\ UNCHANGED varsM
    \/ \E pointId \in 0..(MaxPathLen - 2), available \in BOOLEAN :
           AnchorPointerDown(pointId, available) /\ UNCHANGED varsM
    \/ \E point \in PointerPositions : CapPointerMove(point) /\ UNCHANGED varsM
    \/ \E point \in PointerPositions : AnchorPointerMove(point) /\ UNCHANGED varsM
    \/ CapPointerUp /\ UNCHANGED varsM
    \/ AnchorPointerUp /\ UNCHANGED varsM
    \/ UnheardPointerUp /\ UNCHANGED varsM
    \/ ConnectorElementUpdated /\ UNCHANGED varsM
    \/ Recompute /\ UNCHANGED varsM

SpecDrag == InitDrag /\ [][NextDrag]_vars

---------------------------------------------------------------------------
(* Properties of the path operations and of the handle                     *)

AxisAligned(path) ==
    \A i \in 1..(Len(path) - 1) : path[i].x = path[i + 1].x \/ path[i].y = path[i + 1].y

\* C5: orthogonal validity. In every reachable state of an orthogonal
\* connector, after any sequence of recomputes, movePoint calls and
\* removeExtraPoints calls, every two consecutive points of absolutePath
\* share a coordinate: every segment is horizontal or vertical.
C5_OrthogonalAxisAligned ==
    dc.mode = "Orthogonal" => AxisAligned(dc.absolutePath)

PinnedIndexes(path) == {i \in 1..Len(path) : path[i].fx \/ path[i].fy}

LeastOf(S) == CHOOSE i \in S : \A j \in S : i <= j
GreatestOf(S) == CHOOSE i \in S : \A j \in S : j <= i

\* the route keeps path[f + 1 .. l - 1] between a route-to-line result from
\* the start and a reversed one from the end
ReroutedAround(path, route, f, l) ==
    /\ Len(route) = 2 + (l - f - 1) + 2
    /\ SubSeq(route, 1, 2) =
           GenerateOrthogonalConnectorPathToLine(path[1], <<path[f], path[f + 1]>>)
    /\ \A k \in 1..(l - f - 1) : route[2 + k] = path[f + k]
    /\ SubSeq(route, Len(route) - 1, Len(route)) =
           Reverse(GenerateOrthogonalConnectorPathToLine(path[Len(path)],
                                                         <<path[l], path[l - 1]>>))

\* path is the stored path with the resolved ends written into it
PartialOrFullRoute(path, route, pinned) ==
    IF Cardinality(pinned) < 2
    THEN route = GenerateSmallestOrthogonalConnectorPath(path[1], path[Len(path)])
    ELSE ReroutedAround(path, route, LeastOf(pinned), GreatestOf(pinned))

RouteOfRecompute(pre, path) ==
    PartialOrFullRoute(path, GenerateOrthogonalConnectorPath(pre, pre.absolutePath, NoShapes).v,
                       PinnedIndexes(path))

\* the stored path of the connector with its resolved ends written into it
WithResolvedEnds(c) ==
    PutEndsOf(ToAbsolute(c.path, c.xywh), ComputeStartEndPoint(c, NoShapes)).v

\* C6: partial re-route preserves the pinned interior. When the path of an
\* orthogonal connector has at least two distinct pinned points,
\* generateOrthogonalConnectorPath returns the points strictly between the
\* first and the last pinned point unchanged and in order, between a
\* route-to-line result from the start and one from the end; with fewer
\* pinned points it returns the full route between the resolved ends.
C6_PartialReroutePreservesPinned ==
    (lastOp.op = "recompute" /\ lastOp.pre.mode = "Orthogonal") =>
        RouteOfRecompute(lastOp.pre, WithResolvedEnds(lastOp.pre))

KeptBetween(path, pinned) ==
    /\ Cardinality(pinned) >= 2
    /\ GreatestOf(pinned) - LeastOf(pinned) >= 2

\* a recompute moved an end of a path that has a point between its first
\* and its last pinned point
C6_Witness ==
    /\ lastOp.op = "recompute"
    /\ lastOp.pre.mode = "Orthogonal"
    /\ KeptBetween(WithResolvedEnds(lastOp.pre), PinnedIndexes(WithResolvedEnds(lastOp.pre)))
    /\ WithResolvedEnds(lastOp.pre) # lastOp.pre.absolutePath

\* C7: drag cancellation. A pointer-down on an endpoint handle or a segment
\* handle followed by a pointer-up with no pointer-move in between stashes
\* and pops no field and leaves the connector as it was; the moving flag is
\* false before, between and after the two events.
C7_DragCancellation ==
    [][ /\ (hs.pointer = "up" /\ hs'.pointer = "down") =>
               /\ ~hs.isMoving
               /\ ~hs'.isMoving
               /\ hs'.stashed = {}
               /\ hs'.log = <<>>
               /\ dc' = dc
        /\ (hs.pointer = "down" /\ hs.moves = 0 /\ hs'.pointer = "up") =>
               /\ ~hs.isMoving
               /\ ~hs'.isMoving
               /\ hs'.stashed = {}
               /\ \A k \in 1..Len(hs'.log) : hs'.log[k] \notin {"stash", "pop", "collapse"}
               /\ dc' = dc ]_vars

\* a pointer-up was handled after a pointer-down and no pointer-move
C7_Witness ==
    /\ hs.pointer = "up"
    /\ hs.drags > 0
    /\ hs.moves = 0
    /\ hs.log = <<"dispose", "bind", "resizeEnd">>

\* what the handlers of a committed drag called, in order
CommitLog(h) ==
    <<"stash">> \o (IF h.pointId # NaN THEN <<"collapse">> ELSE <<>>)
        \o <<"pop", "dispose", "bind", "resizeEnd">>

\* C8: drag commit. In a drag with one or more pointer-moves the fields are
\* stashed once, on the first move, and popped once, at the pointer-up and
\* after the collinear collapse of a point or segment drag; after the
\* pointer-up the moving flag is false, the document listeners of the drag
\* are disposed and the handle's listeners are bound again.
C8_DragCommit ==
    /\ (hs.pointer = "down" /\ hs.moves >= 1) =>
           /\ hs.isMoving
           /\ hs.drag # "none"
           /\ hs.log = <<"stash">>
           /\ hs.stashed = (IF hs.drag = "cap" THEN RapidlyFields ELSE FieldsForStash)
    /\ (hs.pointer = "up" /\ hs.moves >= 1) =>
           /\ ~hs.isMoving
           /\ hs.drag = "none"
           /\ hs.stashed = {}
           /\ hs.log = CommitLog(hs)

\* a segment drag with more than one move was committed
C8_Witness ==
    /\ hs.pointer = "up"
    /\ hs.moves > 1
    /\ hs.pointId # NaN
    /\ hs.log = <<"stash", "collapse", "pop", "dispose", "bind", "resizeEnd">>

\* the two points a and b of the path moved along dir and nothing else did
MovedAlong(pre, post, a, b, dir) ==
    /\ Coord(pre[a], dir) = Coord(pre[b], dir)
    /\ Len(post) = Len(pre)
    /\ \A k \in 1..Len(pre) : k \notin {a, b} => post[k] = pre[k]
    /\ \A k \in {a, b} :
           /\ Coord(post[k], 1 - dir) = Coord(pre[k], 1 - dir)
           /\ post[k].tangent = pre[k].tangent
           /\ post[k].in = pre[k].in
           /\ post[k].out = pre[k].out
           /\ (IF dir = 0 THEN post[k].fx ELSE post[k].fy)
           /\ (IF dir = 0 THEN post[k].fy = pre[k].fy ELSE post[k].fx = pre[k].fx)

InteriorMove(op) ==
    /\ op.op = "move"
    /\ op.pre.mode = "Orthogonal"
    /\ op.index > 0
    /\ op.index < Len(op.pre.absolutePath) - 2
    /\ AxisAligned(op.pre.absolutePath)

\* C9: orthogonal interior move frame. On an orthogonal path, movePoint with
\* an index i, 0 < i < length - 2, changes only the coordinate of points i
\* and i + 1 on the axis the two share; it pins that axis on both, keeps
\* what was pinned on them, and leaves every other point and the length.
C9_InteriorMoveFrame ==
    InteriorMove(lastOp) =>
        /\ lastOp.r = lastOp.index
        /\ \E dir \in {0, 1} :
               MovedAlong(lastOp.pre.absolutePath, dc.absolutePath,
                          lastOp.index + 1, lastOp.index + 2, dir)

\* an interior move of a segment with a point pinned on the other axis
C9_Witness ==
    /\ InteriorMove(lastOp)
    /\ dc.absolutePath # lastOp.pre.absolutePath
    /\ lastOp.pre.absolutePath[lastOp.index + 1].fx
    /\ lastOp.pre.absolutePath[lastOp.index + 1].fy
    /\ lastOp.pre.absolutePath[lastOp.index + 1].x # lastOp.pre.absolutePath[lastOp.index + 2].x

\* the points r and r + 1 (from 0) of the path are the dragged segment: on
\* one line along dir, within the snap distance of the pointer, pinned
DraggedSegment(path, r, point) ==
    /\ r >= 0
    /\ r <= Len(path) - 2
    /\ \E dir \in {0, 1} :
           /\ Coord(path[r + 1], dir) = Coord(path[r + 2], dir)
           /\ Abs(Coord(path[r + 1], dir) - point[dir + 1]) < 1000
           /\ (IF dir = 0 THEN path[r + 1].fx /\ path[r + 2].fx
               ELSE path[r + 1].fy /\ path[r + 2].fy)

\* the points of post ahead of the dragged segment that pre did not have
InsertedAhead(pre, post) == Len(post) - Len(pre) - (IF Len(pre) = 2 THEN 1 ELSE 0)

\* the next move with index r moves the points r and r + 1 and returns r
SameSegmentNext(c, r, next) ==
    /\ ~next.err
    /\ next.index = r
    /\ Len(next.v.absolutePath) = Len(c.absolutePath)
    /\ \A k \in 1..Len(c.absolutePath) :
           k \notin {r + 1, r + 2} => next.v.absolutePath[k] = c.absolutePath[k]

\* C10: the returned index of an orthogonal move. movePoint returns r with
\* the dragged segment at (absolutePath[r], absolutePath[r + 1]); r is the
\* number of points inserted ahead when the first segment is moved and the
\* input index otherwise; the next move with index r moves the same two
\* points and returns r again, on every path length from two points on.
C10_ReturnedIndex ==
    (lastOp.op = "move" /\ lastOp.pre.mode = "Orthogonal") =>
        /\ DraggedSegment(dc.absolutePath, lastOp.r, lastOp.point)
        /\ lastOp.index # 0 => lastOp.r = lastOp.index
        /\ lastOp.index = 0 =>
               lastOp.r = InsertedAhead(lastOp.pre.absolutePath, dc.absolutePath)
        /\ \A point \in PointerPositions :
               SameSegmentNext(dc, lastOp.r, movePoint(dc, NoShapes, lastOp.r, point))

\* the only segment of a vertical or horizontal two-point path was moved
C10_Witness ==
    /\ lastOp.op = "move"
    /\ lastOp.pre.mode = "Orthogonal"
    /\ Len(lastOp.pre.absolutePath) = 2
    /\ AxisAligned(lastOp.pre.absolutePath)
    /\ lastOp.index = 0
    /\ lastOp.r = 1
    /\ Len(dc.absolutePath) = 4

---------------------------------------------------------------------------
(* The full orthogonal route between two ends with their bounds. A bound   *)
(* is <<x, y, w, h>>, and <<>> when the end has none; offsets are          *)
(* <<left, top, right, bottom>>                                            *)

NoBound == <<>>

MaxX(b) == b[1] + b[3]
MaxY(b) == b[2] + b[4]

\* isOverlap(line1, line2, axis, false) for the projections lo1..hi1 and
\* lo2..hi2 of the two lines on the axis
IsOverlap(lo1, hi1, lo2, hi2) == ~(hi1 <= lo2 \/ hi2 <= lo1)

\* Math.max(Math.min(dist / 2, 20), 0)
HalfGap(dist) == Max(Min(dist \div 2, 2000), 0)

\* Math.min(a, b) === 0 ? 20 : Math.min(a, b)
SharedOffset(a, b) == IF Min(a, b) = 0 THEN 2000 ELSE Min(a, b)

\* startOffset before the two bounds share their facing offsets: the top,
\* the right and the bottom of the start bound are compared with the end
\* bound
StartOffsetTowards(sb, eb) ==
    << 2000,
       IF IsOverlap(sb[1], MaxX(sb), eb[1], MaxX(eb)) /\ sb[2] > MaxY(eb)
       THEN HalfGap(sb[2] - MaxY(eb)) ELSE 2000,
       IF IsOverlap(sb[2], MaxY(sb), eb[2], MaxY(eb)) /\ MaxX(sb) < eb[1]
       THEN HalfGap(eb[1] - MaxX(sb)) ELSE 2000,
       IF IsOverlap(sb[1], MaxX(sb), eb[1], MaxX(eb)) /\ MaxY(sb) < eb[2]
       THEN HalfGap(eb[2] - MaxY(sb)) ELSE 2000 >>

SharedOffsets(so, eo) ==
    << <<SharedOffset(so[1], eo[3]), SharedOffset(so[2], eo[4]),
         SharedOffset(so[3], eo[1]), SharedOffset(so[4], eo[2])>>,
       <<SharedOffset(so[3], eo[1]), SharedOffset(so[4], eo[2]),
         SharedOffset(so[1], eo[3]), SharedOffset(so[2], eo[4])>> >>

\* computeOffset(startBound, endBound): <<startOffset, endOffset>>
ComputeOffset(sb, eb) ==
    IF sb = NoBound \/ eb = NoBound
    THEN << <<2000, 2000, 2000, 2000>>, <<2000, 2000, 2000, 2000>> >>
    ELSE SharedOffsets(StartOffsetTowards(sb, eb), <<2000, 2000, 2000, 2000>>)

\* bound.expand(left, top, right, bottom)
ExpandBy(b, o) == <<b[1] - o[1], b[2] - o[2], b[3] + o[1] + o[3], b[4] + o[2] + o[4]>>

\* getNextPoint(bound, point, offsetX, offsetY, offsetW, offsetH) for a
\* point on the outline of the bound: the point moved off the side it is
\* on, the sides tested in the order left, top, right, bottom
GetNextPoint(b, v, o) ==
    IF v[1] = b[1] THEN <<v[1] - o[1], v[2]>>
    ELSE IF v[2] = b[2] THEN <<v[1], v[2] - o[2]>>
    ELSE IF v[1] = MaxX(b) THEN <<v[1] + o[3], v[2]>>
    ELSE IF v[2] = MaxY(b) THEN <<v[1], v[2] + o[4]>>
    ELSE v

OnOutline(b, v) ==
    /\ v[1] >= b[1] /\ v[1] <= MaxX(b) /\ v[2] >= b[2] /\ v[2] <= MaxY(b)
    /\ v[1] \in {b[1], MaxX(b)} \/ v[2] \in {b[2], MaxY(b)}

\* computeNextStartEndpoint
NextStartPoint(s, sb, so) == IF sb # NoBound THEN GetNextPoint(sb, s, so) ELSE s
LastEndPoint(e, eb, eo) == IF eb # NoBound THEN GetNextPoint(eb, e, eo) ELSE e

\* _prepareOrthogonalConnectorInfo
PrepareOrthogonalConnectorInfo(s, e, sb, eb) ==
    [startPoint |-> s, endPoint |-> e,
     nextStartPoint |-> NextStartPoint(s, sb, ComputeOffset(sb, eb)[1]),
     lastEndPoint |-> LastEndPoint(e, eb, ComputeOffset(sb, eb)[2]),
     startBound |-> sb, endBound |-> eb,
     expandStartBound |-> IF sb # NoBound THEN ExpandBy(sb, ComputeOffset(sb, eb)[1]) ELSE NoBound,
     expandEndBound |-> IF eb # NoBound THEN ExpandBy(eb, ComputeOffset(sb, eb)[2]) ELSE NoBound]

\* getDirectPath(startPoint, endPoint)
GetDirectPath(s, e) ==
    IF AlmostEqual(s[1], e[1], 2) \/ AlmostEqual(s[2], e[2], 2) THEN <<s, e>>
    ELSE <<s, <<s[1], e[2]>>, e>>

\* the three tests of generateSmallestOrthogonalConnectorPath that return
\* the direct path without a search
TakesDirectPath(info) ==
    \/ /\ info.startBound # NoBound /\ info.endBound # NoBound
       /\ IsPointInBound(info.startBound, info.endPoint, 1)
       /\ IsPointInBound(info.endBound, info.startPoint, 1)
    \/ /\ info.startBound # NoBound
       /\ IsPointInBound(info.expandStartBound, info.endPoint, 0)
    \/ /\ info.endBound # NoBound
       /\ IsPointInBound(info.expandEndBound, info.startPoint, 0)

\* the segment from a to b, which runs along an axis, passes through a
\* point strictly inside the bound
CrossesInterior(a, b, bound) ==
    /\ bound # NoBound
    /\ Min(a[1], b[1]) < MaxX(bound) /\ Max(a[1], b[1]) > bound[1]
    /\ Min(a[2], b[2]) < MaxY(bound) /\ Max(a[2], b[2]) > bound[2]

\* mergePath: a point between two points on its own line is left out
RECURSIVE MergeFrom(_, _)
MergeFrom(points, i) ==
    IF i > Len(points) - 1 THEN <<>>
    ELSE (IF \/ /\ AlmostEqual(points[i - 1][1], points[i][1], 2)
                /\ AlmostEqual(points[i][1], points[i + 1][1], 2)
             \/ /\ AlmostEqual(points[i - 1][2], points[i][2], 2)
                /\ AlmostEqual(points[i][2], points[i + 1][2], 2)
          THEN <<>> ELSE <<points[i]>>) \o MergeFrom(points, i + 1)

MergePath(points) ==
    IF Len(points) = 0 THEN <<>>
    ELSE <<points[1]>> \o MergeFrom(points, 2) \o <<points[Len(points)]>>

\* the coordinates the search may turn at: the next start point, the last
\* end point and the sides of the expanded bounds
TurnsOn(info, axis) ==
    {info.nextStartPoint[axis], info.lastEndPoint[axis]}
        \cup (IF info.expandStartBound = NoBound THEN {}
              ELSE {info.expandStartBound[axis],
                    info.expandStartBound[axis] + info.expandStartBound[axis + 2]})
        \cup (IF info.expandEndBound = NoBound THEN {}
              ELSE {info.expandEndBound[axis],
                    info.expandEndBound[axis] + info.expandEndBound[axis + 2]})

\* the ways from the next start point to the last end point with at most
\* three segments
Ways(info) ==
    LET ns == info.nextStartPoint
        le == info.lastEndPoint
    IN  {<<ns, le>>, <<ns, <<ns[1], le[2]>>, le>>, <<ns, <<le[1], ns[2]>>, le>>}
            \cup {<<ns, <<ns[1], y>>, <<le[1], y>>, le>> : y \in TurnsOn(info, 2)}
            \cup {<<ns, <<x, ns[2]>>, <<x, le[2]>>, le>> : x \in TurnsOn(info, 1)}

Between(info, way) ==
    (IF info.startBound # NoBound THEN <<info.startPoint>> ELSE <<>>)
        \o way \o (IF info.endBound # NoBound THEN <<info.endPoint>> ELSE <<>>)

AlongAxes(points) ==
    \A i \in 1..(Len(points) - 1) :
        points[i][1] = points[i + 1][1] \/ points[i][2] = points[i + 1][2]

Avoids(points, info) ==
    \A i \in 1..(Len(points) - 1) :
        /\ ~CrossesInterior(points[i], points[i + 1], info.startBound)
        /\ ~CrossesInterior(points[i], points[i + 1], info.endBound)

PathLength(points) ==
    IF Len(points) < 2 THEN 0
    ELSE LET step[i \in 1..(Len(points) - 1)] ==
                 Abs(points[i + 1][1] - points[i][1]) + Abs(points[i + 1][2] - points[i][2])
                     + (IF i = 1 THEN 0 ELSE step[i - 1])
         IN  step[Len(points) - 1]

Searchable(info) ==
    {Between(info, way) : way \in {w \in Ways(info) :
        AlongAxes(Between(info, w)) /\ Avoids(Between(info, w), info)}}

\* the path of the A* runner: a shortest way along the axes that passes
\* through no point strictly inside either bound
SearchedPath(info) ==
    CHOOSE p \in Searchable(info) :
        \A q \in Searchable(info) :
            \/ PathLength(p) < PathLength(q)
            \/ PathLength(p) = PathLength(q) /\ Len(p) <= Len(q)

\* generateSmallestOrthogonalConnectorPath({startPoint, endPoint,
\* startBound, endBound})
GenerateSmallestPathBetween(s, e, sb, eb) ==
    IF TakesDirectPath(PrepareOrthogonalConnectorInfo(s, e, sb, eb))
    THEN GetDirectPath(s, e)
    ELSE MergePath(SearchedPath(PrepareOrthogonalConnectorInfo(s, e, sb, eb)))

CanSearch(s, e, sb, eb) ==
    \/ TakesDirectPath(PrepareOrthogonalConnectorInfo(s, e, sb, eb))
    \/ Searchable(PrepareOrthogonalConnectorInfo(s, e, sb, eb)) # {}

---------------------------------------------------------------------------
(* The path operations of ConnectorPathGenerator applied to one connector  *)
(* with two free ends whose stored points are drawn from a bounded set     *)

\* the most points a stored path starts with
MaxInputLen == 4

\* coordinates in hundredths: 0.03 lies within the 0.05 tolerance of 0
InputXs == {0, 3, 1000}
InputYs == {0, 1000}

\* tangent, in and out vector and pin flags the stored points carry
Decorations ==
    {[tangent |-> Zero2, in |-> Zero2, out |-> Zero2, fx |-> 0, fy |-> 0],
     [tangent |-> <<1, 0>>, in |-> <<-300, 0>>, out |-> <<600, 0>>, fx |-> 1, fy |-> 0],
     [tangent |-> <<0, -1>>, in |-> <<0, -600>>, out |-> <<0, 300>>, fx |-> 0, fy |-> 1]}

Decorated(v, d) == PointLocation(v, d.tangent, d.in, d.out, d.fx, d.fy)

InputPaths ==
    UNION {[1..n -> InputXs \X InputYs] : n \in 2..MaxInputLen}

\* a connector in memory: its box, its path relative to the box and the
\* serialized points of that path
Stored(c, nb) == SetPath([c EXCEPT !.xywh = nb.bound, !.points = nb.points], nb.path)

StoredConnector(mode, vs, d) ==
    Stored(NewConnector(mode, Free(vs[1]), Free(vs[Len(vs)])),
           GetNewBound(mode, [i \in 1..Len(vs) |-> Decorated(vs[i], d)]))

InitPath ==
    /\ InitMiddlewareIdle
    /\ \E mode \in Modes, vs \in InputPaths, d \in Decorations :
           dc = StoredConnector(mode, vs, d)
    /\ hs = IdleHandle
    /\ lastOp = NoOp

\* path.map(p => p.toXYTangentInOut())
Serialize(path) == [i \in 1..Len(path) |-> ToXYTangentInOut(path[i])]

\* connector.points = the serialized form of the path: the elementUpdated
\* notification of the field deserializes it into the path again
PointsAssigned ==
    /\ lastOp.op = "none"
    /\ dc' = SetPoints(dc, Serialize(dc.path))
    /\ lastOp' = Handled("points", dc, NaN, <<>>, NaN)
    /\ UNCHANGED hs

\* removeExtraPoints(connector)
ExtraPointsRemoved ==
    /\ lastOp.op \in {"none", "collapse"}
    /\ removeExtraPoints(dc) # dc \/ lastOp.op = "none"
    /\ dc' = removeExtraPoints(dc)
    /\ lastOp' = Handled("collapse", dc, NaN, <<>>, NaN)
    /\ UNCHANGED hs

\* the positions a point is moved to
MovePositions == {<<500, 1500>>, <<1000, 0>>}

\* movePoint(connector, elementGetter, movingIndex, absolutePoint) on a
\* straight or a curve connector
PointMoved(movingIndex, absolutePoint) ==
    /\ lastOp.op = "none"
    /\ dc.mode \in {"Straight", "Curve"}
    /\ movingIndex <= Len(dc.absolutePath) - 1
    /\ dc.mode = "Curve" =>
           CanSmooth([dc.absolutePath EXCEPT ![movingIndex + 1] =
                         SetVec(dc.absolutePath[movingIndex + 1], absolutePoint)],
                     movingIndex)
    /\ dc' = movePoint(dc, NoShapes, movingIndex, absolutePoint).v
    /\ lastOp' = Handled("move", dc, movingIndex, absolutePoint, movingIndex)
    /\ UNCHANGED hs

\* addPointIntoPath(connector, insertIndex, elementGetter)
PointAdded(insertIndex) ==
    /\ lastOp.op = "none"
    /\ dc.mode = "Curve" =>
           CanSmooth(AddPointIntoCurvePath(dc, insertIndex), insertIndex)
    /\ dc' = addPointIntoPath(dc, insertIndex)
    /\ lastOp' = Handled("add", dc, insertIndex, <<>>, NaN)
    /\ UNCHANGED hs

\* connector.mode = mode: the elementUpdated notification of the field marks
\* the connector before its path is recomputed
ModeSwitched(mode) ==
    /\ lastOp.op = "none"
    /\ mode # dc.mode
    /\ dc' = [dc EXCEPT !.mode = mode, !.modeUpdating = TRUE]
    /\ lastOp' = Handled("mode", dc, NaN, <<>>, NaN)
    /\ UNCHANGED hs

\* updatePathEnds(connector, elementGetter); a curve of this model is
\* recomputed with two points only
PathEndsUpdated ==
    /\ lastOp.op \in {"none", "mode"}
    /\ dc.mode = "Curve" => Len(dc.path) = 2
    /\ CanRoute(dc)
    /\ ~UpdatePathEnds(dc, NoShapes).err
    /\ dc' = UpdatePathEnds(dc, NoShapes).v
    /\ lastOp' = Handled("recompute", dc, NaN, <<>>, NaN)
    /\ UNCHANGED hs

NextPath ==
    \/ PointsAssigned /\ UNCHANGED varsM
    \/ ExtraPointsRemoved /\ UNCHANGED varsM
    \/ \E movingIndex \in 0..(MaxInputLen - 1), absolutePoint \in MovePositions :
           PointMoved(movingIndex, absolutePoint) /\ UNCHANGED varsM
    \/ \E insertIndex \in 0..MaxInputLen : PointAdded(insertIndex) /\ UNCHANGED varsM
    \/ \E mode \in Modes : ModeSwitched(mode) /\ UNCHANGED varsM
    \/ PathEndsUpdated /\ UNCHANGED varsM

SpecPath == InitPath /\ [][NextPath]_vars

---------------------------------------------------------------------------
(* C11                                                                     *)

\* C11: deserializing the serialized form of a path gives back every point
\* with its coordinates, tangent, in and out vector and both pin flags, and
\* clone() of a point has the same six components
C11_SerializationRoundTrip ==
    lastOp.op = "points" =>
        /\ dc.path = lastOp.pre.path
        /\ \A i \in 1..Len(dc.path) :
               /\ FromSerialized(ToXYTangentInOut(lastOp.pre.path[i])) = lastOp.pre.path[i]
               /\ Clone(lastOp.pre.path[i]) = lastOp.pre.path[i]

C11_Witness ==
    /\ lastOp.op = "points"
    /\ \E i \in 1..Len(dc.path) :
           /\ dc.path[i].fx /\ ~dc.path[i].fy
           /\ dc.path[i].tangent # Zero2
           /\ dc.path[i].in # Zero2 /\ dc.path[i].out # dc.path[i].in
           /\ dc.path[i].x # dc.path[i].y


---------------------------------------------------------------------------
(* C12                                                                     *)

\* C12: on an orthogonal path, near-equal coordinates included, a second
\* removeExtraPoints leaves the path the first one produced
C12_CollapseIdempotent ==
    (lastOp.op = "collapse" /\ dc.mode = "Orthogonal") =>
        removeExtraPoints(dc).absolutePath = dc.absolutePath

---------------------------------------------------------------------------
(* C13                                                                     *)

Horizontal(a, b) == a.y = b.y /\ a.x # b.x
Vertical(a, b) == a.x = b.x /\ a.y # b.y

\* the path turns from one axis to the other at point i
TurnsAt(path, i) ==
    /\ 1 < i /\ i < Len(path)
    /\ \/ Horizontal(path[i - 1], path[i]) /\ Vertical(path[i], path[i + 1])
       \/ Vertical(path[i - 1], path[i]) /\ Horizontal(path[i], path[i + 1])

\* the first point, the turning points and the last point, in path order
RECURSIVE CornersFrom(_, _)
CornersFrom(path, i) ==
    IF i > Len(path) THEN <<>>
    ELSE IF i = 1 \/ i = Len(path) \/ TurnsAt(path, i)
    THEN <<path[i]>> \o CornersFrom(path, i + 1)
    ELSE CornersFrom(path, i + 1)

\* s is t with some points left out
RECURSIVE IsSubSeqFrom(_, _, _, _)
IsSubSeqFrom(s, i, t, j) ==
    IF i > Len(s) THEN TRUE
    ELSE IF j > Len(t) THEN FALSE
    ELSE IF s[i] = t[j] THEN IsSubSeqFrom(s, i + 1, t, j + 1)
    ELSE IsSubSeqFrom(s, i, t, j + 1)

\* C13: removeExtraPoints on an orthogonal path only leaves points out,
\* keeps the first point, the last point and every point where the path
\* turns from one axis to the other, in their order, and changes nothing
\* in straight and curve mode
C13_CollapseKeepsCorners ==
    lastOp.op = "collapse" =>
        IF dc.mode # "Orthogonal" THEN dc = lastOp.pre
        ELSE AxisAligned(lastOp.pre.absolutePath) =>
                 /\ IsSubSeqFrom(dc.absolutePath, 1, lastOp.pre.absolutePath, 1)
                 /\ IsSubSeqFrom(CornersFrom(lastOp.pre.absolutePath, 1), 1, dc.absolutePath, 1)

---------------------------------------------------------------------------
(* C14                                                                     *)

\* the first pair, in enumeration order, of least distance
LeastPair(sa, ea) ==
    CHOOSE k \in 1..16 :
        /\ \A j \in 1..16 : PairDist2(sa, ea, k) <= PairDist2(sa, ea, j)
        /\ \A j \in 1..(k - 1) : PairDist2(sa, ea, j) > PairDist2(sa, ea, k)

EndsAtLeastPair(c, sa, ea) ==
    /\ Len(c.absolutePath) >= 2
    /\ Vec(c.absolutePath[1]) = Vec(AnchorPairAt(sa, ea, LeastPair(sa, ea))[1])
    /\ Vec(c.absolutePath[Len(c.absolutePath)]) = Vec(AnchorPairAt(sa, ea, LeastPair(sa, ea))[2])

\* C14: a recomputed connector whose source and target both name a shape
\* without a position, in whatever mode, ends at the pair of anchors of
\* least distance, the first such pair in enumeration order
C14_AnchorPairSelection ==
    lastFlush.done =>
        \A c \in lastFlush.recomputed :
            BothAuto(lastFlush.post[c]) =>
                EndsAtLeastPair(lastFlush.post[c],
                                getAnchors(lastFlush.shapes[lastFlush.post[c].source.id].xywh),
                                getAnchors(lastFlush.shapes[lastFlush.post[c].target.id].xywh))

---------------------------------------------------------------------------
(* C15                                                                     *)

\* absolutePath is path shifted by the origin of xywh, point by point
InSync(c) ==
    /\ Len(c.absolutePath) = Len(c.path)
    /\ \A i \in 1..Len(c.path) :
           Vec(c.absolutePath[i]) = <<c.path[i].x + c.xywh[1], c.path[i].y + c.xywh[2]>>

---------------------------------------------------------------------------
(* C16                                                                     *)

\* the orders a pending set can be iterated in
OrdersOf(list) ==
    {[i \in 1..Len(list) |-> list[f[i]]] :
        f \in {g \in [1..Len(list) -> 1..Len(list)] :
                  \A i, j \in 1..Len(list) : i # j => g[i] # g[j]}}

\* the flush of the connectors and shapes of the last flush with the
\* pending set iterated in another order
FlushedInOrder(list) ==
    ForEachPending([conns |-> lastFlush.pre, visits |-> NoVisits,
                    recomputed |-> {}, error |-> FALSE],
                   list, lastFlush.shapes, 1)

SameOutcome(run) ==
    /\ run.recomputed = lastFlush.recomputed
    /\ \A c \in ConnSet : /\ run.conns[c].path = lastFlush.post[c].path
                          /\ run.conns[c].absolutePath = lastFlush.post[c].absolutePath
                          /\ run.conns[c].xywh = lastFlush.post[c].xywh

---------------------------------------------------------------------------
(* C17                                                                     *)

\* the point itself, its immediate neighbours and the path end matching
\* index 2 or index length - 3
MaySmooth(n, pointIndex) ==
    {pointIndex - 1, pointIndex, pointIndex + 1}
        \cup (IF pointIndex = 2 THEN {0} ELSE {})
        \cup (IF pointIndex = n - 3 THEN {n - 1} ELSE {})

\* the points handed to the smoothing by the last operation on a curve
SmoothedInput(op) ==
    IF op.op = "move"
    THEN [op.pre.absolutePath EXCEPT ![op.index + 1] =
             SetFreezedAxis(SetVec(op.pre.absolutePath[op.index + 1], op.point), FALSE, FALSE)]
    ELSE AddPointIntoCurvePath(op.pre, op.index)

CascadeBounded(input, pointIndex, calls, output) ==
    /\ Len(calls) <= 5
    /\ \A k \in 1..Len(calls) : /\ calls[k][2] <= 1
                                /\ calls[k][1] \in MaySmooth(Len(input), pointIndex)
    /\ Len(output) = Len(input)
    /\ \A i \in 1..Len(input) :
           (i - 1) \notin MaySmooth(Len(input), pointIndex) => output[i] = input[i]

\* C17: the smoothing a movePoint or an addPointIntoPath of a curve starts
\* at an index ends after at most five calls, none deeper than one hop,
\* and changes only the point, its immediate neighbours and the path end
\* matching index 2 or index length - 3
C17_SmoothingCascadeBounded ==
    (lastOp.op \in {"move", "add"} /\ dc.mode = "Curve") =>
        CascadeBounded(SmoothedInput(lastOp), lastOp.index,
                       AutoSetAnchorRun(SmoothedInput(lastOp), lastOp.index).calls,
                       dc.absolutePath)

C17_Witness ==
    /\ lastOp.op = "move" /\ dc.mode = "Curve"
    /\ lastOp.index = 2
    /\ Len(dc.absolutePath) = 4
    /\ Len(AutoSetAnchorRun(SmoothedInput(lastOp), 2).calls) = 4
    /\ dc.absolutePath[1].out # lastOp.pre.absolutePath[1].out
    /\ dc.absolutePath[2].in # lastOp.pre.absolutePath[2].in

---------------------------------------------------------------------------
(* C19                                                                     *)

\* the points a and b (from 1) of the path are a segment along dir: they
\* share the coordinate dir and differ in the other
RunsAlong(path, a, b, dir) ==
    /\ a >= 1 /\ b <= Len(path)
    /\ Coord(path[a], dir) = Coord(path[b], dir)
    /\ Coord(path[a], 1 - dir) # Coord(path[b], 1 - dir)

\* the axis an orthogonal move of the segment at index (from 0) moves along
MovingDirOf(path, index) == IF path[index + 1].x = path[index + 2].x THEN 0 ELSE 1

\* the segment from a to b (from 1) runs along dir within the snap distance
\* of v: then the two points of the moved segment at r (from 0) are at its
\* fixed value
SnappedTo(path, a, b, dir, v, r) ==
    (RunsAlong(path, a, b, dir) /\ Abs(v - Coord(path[a], dir)) < 1000) =>
        /\ Coord(path[r + 1], dir) = Coord(path[a], dir)
        /\ Coord(path[r + 2], dir) = Coord(path[a], dir)

SnapsOnMove(pre, post, index, point, r) ==
    /\ SnappedTo(post, r - 1, r, MovingDirOf(pre, index),
                 point[MovingDirOf(pre, index) + 1], r)
    /\ SnappedTo(post, r + 3, r + 4, MovingDirOf(pre, index),
                 point[MovingDirOf(pre, index) + 1], r)

\* C19: after an orthogonal movePoint, a next-but-one segment before or
\* after the moved segment that runs along the same axis, with its fixed
\* value less than 10 from the new coordinate, has both points of the moved
\* segment at exactly its fixed value
C19_SnapOnMove ==
    (lastOp.op = "move" /\ lastOp.pre.mode = "Orthogonal") =>
        SnapsOnMove(lastOp.pre.absolutePath, dc.absolutePath, lastOp.index,
                    lastOp.point, lastOp.r)

---------------------------------------------------------------------------
(* C20                                                                     *)

\* m is n-th of total, to the unit the coordinates are kept in
NthOf(m, total, n) == n * m <= total /\ total < n * m + n

\* v is the middle of the straight line from a to b
LinearMiddle(v, a, b) ==
    /\ NthOf(v[1] - a[1], b[1] - a[1], 2)
    /\ NthOf(v[2] - a[2], b[2] - a[2], 2)

\* v is the point at t = 0.5 of the cubic Bezier curve with the points
\* p0, p1, p2 and p3: (p0 + 3 p1 + 3 p2 + p3) / 8
BezierMiddle(v, p0, p1, p2, p3) ==
    /\ NthOf(v[1], p0[1] + 3 * p1[1] + 3 * p2[1] + p3[1], 8)
    /\ NthOf(v[2], p0[2] + 3 * p1[2] + 3 * p2[2] + p3[2], 8)

\* v is the middle between the points before and after of a path of mode
IsMiddle(mode, v, before, after) ==
    /\ mode = "Straight" => LinearMiddle(v, Vec(before), Vec(after))
    /\ mode = "Curve" =>
           /\ BezierMiddle(v, Vec(before), VecAdd(Vec(before), before.out),
                           VecAdd(Vec(after), after.in), Vec(after))
           /\ (before.out = <<0, 0>> /\ after.in = <<0, 0>>) =>
                  LinearMiddle(v, Vec(before), Vec(after))

\* post is pre with one point more, at k (from 0)
InsertedAt(pre, post, k) ==
    /\ Len(post) = Len(pre) + 1
    /\ \A i \in 1..k : Vec(post[i]) = Vec(pre[i])
    /\ \A i \in (k + 1)..Len(pre) : Vec(post[i + 1]) = Vec(pre[i])

PointInserted(mode, pre, post, k) ==
    IF k >= 1 /\ k <= Len(pre) - 1
    THEN /\ InsertedAt(pre, post, k)
         /\ IsMiddle(mode, Vec(post[k + 1]), pre[k], pre[k + 1])
    ELSE post = pre

\* C20: addPointIntoPath(connector, k) on a straight or a curve connector
\* with k strictly interior leaves the path with exactly one point more, at
\* position k, at the middle between the old points k - 1 and k (of the line
\* in straight mode, of the Bezier curve at t = 0.5 in curve mode, which is
\* the middle of the line when both control vectors are zero), the other
\* points in order where they were; with any other k the path is as it was
C20_PointInsertion ==
    (lastOp.op = "add" /\ lastOp.pre.mode \in {"Straight", "Curve"}) =>
        PointInserted(lastOp.pre.mode, lastOp.pre.absolutePath, dc.absolutePath,
                      lastOp.index)

---------------------------------------------------------------------------
(* The connection overlay alone: a point is rendered over the shapes in    *)
(* view                                                                    *)

\* the boxes of the shapes in view
SnapBoxes(id) ==
    IF id = "s1" THEN {<<0, 0, 4000, 4000>>, <<0, 0, 1000, 1000>>}
    ELSE {<<5000, 0, 4000, 4000>>, <<2000, 2000, 4000, 4000>>, <<1500, 0, 1000, 1000>>}

\* the shapes as they are drawn, "s1" below "s2"
Connectables == <<"s1", "s2">>

InView(sh) ==
    SelectSeq(Connectables, LAMBDA id : sh[id].exists)

SnapXs == {-900, -500, 300, 2000, 4500, 7000}
SnapYs == {-900, 0, 2000, 4900}
Zooms == {1, 2}

InitSnap ==
    /\ \E b1 \in SnapBoxes("s1"), b2 \in SnapBoxes("s2"), e2 \in BOOLEAN :
           shapes = [id \in ShapeIds |->
                        [exists |-> (id = "s1" \/ e2),
                         xywh |-> IF id = "s1" THEN b1 ELSE b2]]
    /\ conns = <<>>
    /\ pendingList = <<>>
    /\ pendingFlag = FALSE
    /\ microtasks = 0
    /\ named = <<>>
    /\ lastFlush = <<>>
    /\ dc = <<>>
    /\ hs = <<>>
    /\ lastOp = NoOp

\* overlay.renderConnector(point, excludedIds) at a zoom of the viewport
ConnectorRendered(point, excludedIds, zoom) ==
    /\ lastOp.op = "none"
    /\ lastOp' = Handled("render", excludedIds, zoom, point,
                         renderConnector(point, excludedIds, InView(shapes), shapes, zoom))
    /\ UNCHANGED <<dc, hs>>

NextSnap ==
    \E x \in SnapXs, y \in SnapYs, excludedIds \in SUBSET ShapeIds, zoom \in Zooms :
        ConnectorRendered(<<x, y>>, excludedIds, zoom) /\ UNCHANGED varsM

SpecSnap == InitSnap /\ [][NextSnap]_vars

---------------------------------------------------------------------------
(* C21, C22                                                                *)

\* the shapes renderConnector looks at
Candidates(sh, excludedIds) == {id \in ShapeIds : sh[id].exists /\ id \notin excludedIds}

\* some anchor of the shape is within 8 pixels of the point on the screen
NearAnAnchor(xywh, point, zoom) ==
    \E j \in 1..4 : Dist2(ToViewCoord(Vec(getAnchors(xywh)[j]), zoom),
                          ToViewCoord(point, zoom)) < 800 * 800

\* the point of the outline nearest to the point is within 8 pixels of it
NearTheBoundary(xywh, point, zoom) ==
    \E i \in 1..4 : Dist2(ToViewCoord(SidePoints(xywh, point)[i], zoom),
                          ToViewCoord(point, zoom)) < 800 * 800

InsideBody(xywh, point) ==
    /\ point[1] >= xywh[1] /\ point[1] <= xywh[1] + xywh[3]
    /\ point[2] >= xywh[2] /\ point[2] <= xywh[2] + xywh[4]

\* case (c) for the shape id and for no other shape in view: the point is in
\* its body and near no anchor and no boundary of any candidate, and in the
\* body of no other candidate
OnlyInBodyOf(id, sh, excludedIds, point, zoom) ==
    /\ id \in Candidates(sh, excludedIds)
    /\ InsideBody(sh[id].xywh, point)
    /\ \A o \in Candidates(sh, excludedIds) :
           /\ ~NearAnAnchor(sh[o].xywh, point, zoom)
           /\ ~NearTheBoundary(sh[o].xywh, point, zoom)
           /\ o # id => ~InsideBody(sh[o].xywh, point)

\* C21: when the point is inside the body of a connectable shape that is not
\* excluded, and neither an anchor nor the nearest boundary point of a shape
\* is within 8 pixels of it, renderConnector returns the shape's id with no
\* position
C21_SnapInsideBody ==
    lastOp.op = "render" =>
        \A id \in ShapeIds :
            OnlyInBodyOf(id, shapes, lastOp.pre, lastOp.point, lastOp.index) =>
                lastOp.r = Auto(id)

\* case (d): the point is near no anchor, near no boundary and in no body of
\* a candidate
NearNothing(sh, excludedIds, point, zoom) ==
    \A o \in Candidates(sh, excludedIds) :
        /\ ~NearAnAnchor(sh[o].xywh, point, zoom)
        /\ ~NearTheBoundary(sh[o].xywh, point, zoom)
        /\ ~InsideBody(sh[o].xywh, point)

\* C22: when for every connectable shape in view that is not excluded the
\* point is not within 8 pixels of an anchor, not within 8 pixels of the
\* boundary and not inside the body, renderConnector returns the free point
\* at the cursor with no shape id; and the id it returns is never one of
\* excludedIds
C22_SnapFreePoint ==
    lastOp.op = "render" =>
        /\ NearNothing(shapes, lastOp.pre, lastOp.point, lastOp.index) =>
               lastOp.r = Free(lastOp.point)
        /\ lastOp.r.id \notin lastOp.pre

---------------------------------------------------------------------------
(* The orthogonal route alone: the bounds of the two ends are placed and   *)
(* the offsets and the route between them are computed                     *)

StartBox == <<6000, 6000, 2000, 2000>>

EndXs == {0, 3000, 4000, 6000, 8000, 9000, 12000}
EndYs == {0, 3000, 4000, 6000, 8000, 9000, 12000}

\* the bound of an end of the route: none when the end is a free point
BoundOf(sh, id) == IF sh[id].exists THEN sh[id].xywh ELSE NoBound

InitRoute ==
    /\ \E x \in EndXs, y \in EndYs, e2 \in BOOLEAN :
           shapes = [id \in ShapeIds |->
                        [exists |-> (id = "s1" \/ e2),
                         xywh |-> IF id = "s1" THEN StartBox ELSE <<x, y, 2000, 2000>>]]
    /\ conns = <<>>
    /\ pendingList = <<>>
    /\ pendingFlag = FALSE
    /\ microtasks = 0
    /\ named = <<>>
    /\ lastFlush = <<>>
    /\ dc = <<>>
    /\ hs = <<>>
    /\ lastOp = NoOp

\* computeOffset(startBound, endBound)
OffsetComputed ==
    /\ lastOp.op = "none"
    /\ lastOp' = Handled("offset", <<BoundOf(shapes, "s1"), BoundOf(shapes, "s2")>>, NaN, <<>>,
                         ComputeOffset(BoundOf(shapes, "s1"), BoundOf(shapes, "s2")))
    /\ UNCHANGED <<dc, hs>>

---------------------------------------------------------------------------
(* C23                                                                     *)

\* the interiors of the two bounds meet
Overlapping(a, b) ==
    /\ a[1] < MaxX(b) /\ b[1] < MaxX(a)
    /\ a[2] < MaxY(b) /\ b[2] < MaxY(a)

\* the two offsets that face each other across a gap fit into it
FitsGap(offsetA, offsetB, gap) == gap >= 0 => offsetA + offsetB <= gap

\* two sides face each other when the bounds lie side by side: their
\* projections on the other axis meet
SideBySide(lo1, hi1, lo2, hi2) == lo1 < hi2 /\ lo2 < hi1

FacingOffsetsFit(sb, eb, so, eo) ==
    /\ SideBySide(sb[2], MaxY(sb), eb[2], MaxY(eb)) =>
           /\ FitsGap(so[1], eo[3], sb[1] - MaxX(eb))
           /\ FitsGap(so[3], eo[1], eb[1] - MaxX(sb))
    /\ SideBySide(sb[1], MaxX(sb), eb[1], MaxX(eb)) =>
           /\ FitsGap(so[2], eo[4], sb[2] - MaxY(eb))
           /\ FitsGap(so[4], eo[2], eb[2] - MaxY(sb))

OffsetsInRange(o) == \A i \in 1..4 : o[i] >= 0 /\ o[i] <= 2000

ClearanceKept(sb, eb, so, eo) ==
    /\ OffsetsInRange(so)
    /\ OffsetsInRange(eo)
    /\ FacingOffsetsFit(sb, eb, so, eo)
    /\ ~Overlapping(ExpandBy(sb, so), ExpandBy(eb, eo))

\* C23: for two bounds that do not overlap, wherever the end bound lies
\* (left of, right of, above or below the start bound, touching included),
\* every offset computeOffset returns is at most 20, the two offsets that
\* face each other add up to at most the gap between the bounds, and the
\* two expanded bounds do not overlap
C23_ClearanceOffsets ==
    (/\ lastOp.op = "offset"
     /\ lastOp.pre[2] # NoBound
     /\ ~Overlapping(lastOp.pre[1], lastOp.pre[2])) =>
        ClearanceKept(lastOp.pre[1], lastOp.pre[2], lastOp.r[1], lastOp.r[2])

---------------------------------------------------------------------------
(* C24                                                                     *)

\* the points an end of the route is resolved to: an anchor of its shape,
\* or the free point where the shape would be
EndPoints(sh, id) ==
    IF sh[id].exists THEN {Vec(getAnchors(sh[id].xywh)[j]) : j \in 1..4}
    ELSE {BoundCenter(sh[id].xywh)}

\* generateSmallestOrthogonalConnectorPath({startPoint, endPoint,
\* startBound, endBound})
Routed(s, e) ==
    /\ lastOp.op = "none"
    /\ CanSearch(s, e, BoundOf(shapes, "s1"), BoundOf(shapes, "s2"))
    /\ lastOp' = Handled("route", <<BoundOf(shapes, "s1"), BoundOf(shapes, "s2")>>, NaN,
                         <<s, e>>,
                         GenerateSmallestPathBetween(s, e, BoundOf(shapes, "s1"),
                                                     BoundOf(shapes, "s2")))
    /\ UNCHANGED <<dc, hs>>

NoSegmentCrosses(path, bound) ==
    \A i \in 1..(Len(path) - 1) : ~CrossesInterior(path[i], path[i + 1], bound)

\* C24: no segment of a path generateSmallestOrthogonalConnectorPath
\* returns, the direct paths of its fast tests included, passes through the
\* interior of the start bound or of the end bound
C24_ObstacleAvoidance ==
    lastOp.op = "route" =>
        /\ NoSegmentCrosses(lastOp.r, lastOp.pre[1])
        /\ NoSegmentCrosses(lastOp.r, lastOp.pre[2])

NextRoute ==
    \/ OffsetComputed /\ UNCHANGED varsM
    \/ \E s \in EndPoints(shapes, "s1"), e \in EndPoints(shapes, "s2") :
           Routed(s, e) /\ UNCHANGED varsM

SpecRoute == InitRoute /\ [][NextRoute]_vars
---------------------------------------------------------------------------
(* C25                                                                     *)

\* a segment none of whose two coordinates stays the same
Slanted(a, b) == ~AlmostEqual(a.x, b.x, 2) /\ ~AlmostEqual(a.y, b.y, 2)

HasSlantedSegment(path) ==
    \E i \in 1..(Len(path) - 1) : Slanted(path[i], path[i + 1])

\* a recompute of a connector that was switched to the orthogonal mode
OrthogonalModeSwitch ==
    /\ lastOp.op = "recompute"
    /\ lastOp.pre.modeUpdating
    /\ lastOp.pre.mode = "Orthogonal"

\* the path the route of the recompute starts from
RoutedFrom(c) == ResetOnModeSwitch(LoadPath(c)).path

FirstAndLast(path) == <<path[1], path[Len(path)]>>

\* C25: when updatePathEnds runs on a connector switched to the orthogonal
\* mode, a stored path with a segment that is not axis-aligned, the last
\* one included, is replaced by its first and its last point before the
\* route is computed, a path that is orthogonal already is kept, and the
\* modeUpdating flag is false when updatePathEnds returns
C25_ModeSwitchReset ==
    OrthogonalModeSwitch =>
        /\ RoutedFrom(lastOp.pre) =
               IF HasSlantedSegment(LoadPath(lastOp.pre).path)
               THEN FirstAndLast(LoadPath(lastOp.pre).path)
               ELSE LoadPath(lastOp.pre).path
        /\ ~dc.modeUpdating

---------------------------------------------------------------------------
(* The middleware when the document gives a connector a mode this build    *)
(* does not know: _generateConnectorPath raises 'unknown connector mode'   *)

UnknownMode == "Unknown"

NextFail ==
    \/ Next
    \/ \E c \in ConnSet : ChangeMode(c, UnknownMode) /\ UNCHANGED varsD

SpecFail == Init /\ [][NextFail]_vars

\* C26: a flush in which the recompute of a connector raises still empties
\* the pending set and resets the pending flag, so that connectors named
\* afterwards have a flush queued for them
C26_FlushSurvivesFailure ==
    /\ (lastFlush.done /\ lastFlush.error) =>
           lastFlush.pendingAfter = <<>> /\ ~lastFlush.flagAfter
    /\ pendingList # <<>> => microtasks > 0

---------------------------------------------------------------------------
(* C27                                                                     *)

\* the document listeners of the drag are in _disposables
ListenersRegistered == hs.drag # "none"

\* the pointerup listener of the drag is called
PointerUpHeard == (CapPointerUp \/ AnchorPointerUp) /\ UNCHANGED varsM

\* the pointer that went down goes up again: a pointerup listener that
\* stays registered while the pointer is down is eventually called (weak
\* fairness of PointerUpHeard, with its enabling condition written out)
SpecDragFair ==
    /\ SpecDrag
    /\ \/ []<>~(hs.pointer = "down" /\ ListenersRegistered)
       \/ []<><<PointerUpHeard>>_vars

---------------------------------------------------------------------------
(* C28                                                                     *)

\* the queued microtask is run by the event loop (weak fairness of the
\* flush, with its enabling condition written out)
SpecFlushFair ==
    /\ Spec
    /\ \/ []<>(microtasks = 0)
       \/ []<><<Flush /\ UNCHANGED varsD>>_vars

\* the flush that has just run called updateConnectorPathEnds for c
Served(c) == lastFlush.done /\ lastFlush.visits[c] > 0

---------------------------------------------------------------------------
(* C29                                                                     *)

\* C29: after every updatePathEnds the serialized points of the connector
\* are the serialization of its relative path, point by point, also when
\* the recompute changed interior points while the first and the last
\* serialized point stayed as they were stored
C29_PointsFollowPath ==
    lastOp.op = "recompute" => dc.points = Serialize(dc.path)

---------------------------------------------------------------------------
(* The middleware with the listener of elementUpdated that tests           *)
(* localUpdating for every update of a connector's source, target or mode  *)

\* the props the listener enqueues a connector for
EnqueueingProps == {"source", "target", "mode"}

\* the fields updatePathEnds assigns
RecomputeWrites == {"xywh", "points", "path", "labelXYWH"}

\* the listener without its test of localUpdating
OnConnectorUpdatedAlways(m, localUpdating, c, props) ==
    IF props \cap EnqueueingProps # {}
    THEN [m |-> addToUpdateList(m, c), localUpdating |-> FALSE]
    ELSE [m |-> m, localUpdating |-> localUpdating]

\* the elementUpdated listener for a connector: the middleware's state and
\* the connector's localUpdating flag it leaves
OnConnectorUpdated(m, localUpdating, c, props) ==
    IF props \cap EnqueueingProps # {} /\ localUpdating
    THEN [m |-> addToUpdateList(m, c), localUpdating |-> FALSE]
    ELSE [m |-> m, localUpdating |-> localUpdating]

\* the notification the listener handled last
Notified(c, props, local) ==
    [op |-> "updated", id |-> c, props |-> props, local |-> local, before |-> Current]

Unnotified == [op |-> "none"]

\* elementUpdated of a connector with props.mode; local tells whether the
\* writer had set localUpdating
ConnectorModeUpdated(c, mode, local) ==
    /\ mode # conns[c].mode
    /\ mode = "Curve" => Len(LoadPath(conns[c]).path) <= 2
    /\ local => CanName(<<c>>)
    /\ LET r == OnConnectorUpdated(Current, local, c, {"mode"})
       IN  /\ conns' = [conns EXCEPT ![c].mode = mode, ![c].localUpdating = r.localUpdating]
           /\ SetMiddleware(r.m)
    /\ lastFlush' = NoFlush
    /\ lastOp' = Notified(c, {"mode"}, local)
    /\ UNCHANGED shapes

InitQuiet ==
    /\ shapes = InitShapes
    /\ \E mode2 \in Modes, stored2 \in StoredPoints :
           conns = StartupRecompute(LoadedConnectors(mode2, stored2), InitShapes)
    /\ pendingList = <<>>
    /\ pendingFlag = FALSE
    /\ microtasks = 0
    /\ named = NoVisits
    /\ lastFlush = NoFlush
    /\ dc = <<>>
    /\ hs = <<>>
    /\ lastOp = Unnotified

NextQuiet ==
    \/ \E id \in ShapeIds : \E xywh \in ShapeBoxes(id) :
           ShapeUpdated(id, xywh) /\ lastOp' = Unnotified /\ UNCHANGED <<dc, hs>>
    \/ \E id \in ShapeIds : ShapeRemoved(id) /\ lastOp' = Unnotified /\ UNCHANGED <<dc, hs>>
    \/ \E id \in ShapeIds : ShapeAdded(id) /\ lastOp' = Unnotified /\ UNCHANGED <<dc, hs>>
    \/ \E c \in ConnSet, type \in {"source", "target"}, local \in BOOLEAN :
           \E connection \in Connections(c, type) :
               /\ ConnectorUpdated(c, type, connection, local)
               /\ lastOp' = Notified(c, {type}, local)
               /\ UNCHANGED <<dc, hs>>
    \/ \E c \in ConnSet, local \in BOOLEAN : \E mode \in ModesOf(c) :
           ConnectorModeUpdated(c, mode, local) /\ UNCHANGED <<dc, hs>>
    \/ Flush /\ lastOp' = Unnotified /\ UNCHANGED <<dc, hs>>

SpecQuiet == InitQuiet /\ [][NextQuiet]_vars

---------------------------------------------------------------------------
(* C30                                                                     *)

\* the listener leaves the middleware and the flag as they are
LeavesAlone(c, props, localUpdating) ==
    OnConnectorUpdated(Current, localUpdating, c, props) =
        [m |-> Current, localUpdating |-> localUpdating]

=============================================================================
